---- MODULE Spec2Model ----
(***************************************************************************)
(* Othello Arena: the board engine (game-core.js), the turn scheduler      *)
(* (GameController in intelligent-system-loader.js) and the human-move and *)
(* time-limit handlers of the UI (game-ui.js), as one state machine.       *)
(***************************************************************************)
EXTENDS Integers, Sequences, FiniteSets, TLC

\* ------------------------------------------------------------------ bounds
\* side of the model boards (the stages of stages.js are 8 and 6 wide)
N == 5
\* discs the scheduler and the human handler may place in one run
MaxPly == 3
\* button presses (reset, start, stage change) in one run of the model
MaxUserEvents == 3
\* button presses in one run of the games whose strategies take their time
MaxTimedEvents == 2
\* matches of one run of a tournament or of the leaderboard
MaxMatches == 2
\* strategy invocations that may be pending at the same time
MaxInFlight == 2
\* uses the strategies of one run make of their arguments besides returning
MaxStrategyOps == 1
\* lateness of the deadline timer, in ms, beyond its delay
MaxTimerLag == 1
\* discs placed in one run of the engine by itself
MaxCorePly == 2
\* discs an analysis places with simulateMove in one run
MaxApiPly == 2
\* calls of the strategy registry, uploads and turns in one run
MaxRegistryOps == 3

\* ------------------------------------------------------- GAME_CONSTANTS
EMPTY == 0
BLACK == 1
WHITE == 2
BLOCKED == 3
MAX_AI_TIME_PER_GAME == 10000
\* useFallbackMove: const randomStrategyTime = 100
randomStrategyTime == 100

\* wall-clock durations (ms) a strategy call may take in the model
MoveTimes == {0, 9950}
\* a duration beyond any deadline, for a call that blocks and returns late
LateTime == MAX_AI_TIME_PER_GAME + 1

Idx == 0 .. (N - 1)
Players == {BLACK, WHITE}

\* ---------------------------------------------------------------- stages
\* stages.js scaled to the model board: the centre four of "Standard", and a
\* stage with Blocked cells. No stage of stages.js sets ignoreOcclusion or
\* fewerPiecesContinue, so both read as false.
Mid == N \div 2

stages ==
  << [ name |-> "Standard",
       boardSize |-> N,
       initialBlocked |-> {},
       initialPlayer1 |-> { <<Mid - 1, Mid>>, <<Mid, Mid - 1>> },
       initialPlayer2 |-> { <<Mid - 1, Mid - 1>>, <<Mid, Mid>> },
       ignoreOcclusion |-> FALSE,
       fewerPiecesContinue |-> FALSE ],
     [ name |-> "Blocked",
       boardSize |-> N,
       initialBlocked |-> { <<0, 1>>, <<N - 1, N - 2>> },
       initialPlayer1 |-> { <<Mid - 1, Mid>>, <<Mid, Mid - 1>> },
       initialPlayer2 |-> { <<Mid - 1, Mid - 1>>, <<Mid, Mid>> },
       ignoreOcclusion |-> FALSE,
       fewerPiecesContinue |-> FALSE ] >>

StageIds == 1 .. Len(stages)

\* stage configurations that switch on the two special rules the engine reads
\* from the stage (stageConfig.ignoreOcclusion, stageConfig.fewerPiecesContinue).
\* The first two have, on row Mid, an empty cell, a White disc, a Blocked
\* cell, a White disc and a Black disc next to each other; in the third Black
\* starts far behind.
ruleStages ==
  << [ name |-> "Occlusion",
       boardSize |-> N,
       initialBlocked |-> { <<Mid, 2>> },
       initialPlayer1 |-> { <<Mid, 4>>, <<Mid - 1, 1>> },
       initialPlayer2 |-> { <<Mid, 1>>, <<Mid, 3>>, <<Mid - 1, 2>> },
       ignoreOcclusion |-> TRUE,
       fewerPiecesContinue |-> FALSE ],
     [ name |-> "NoOcclusion",
       boardSize |-> N,
       initialBlocked |-> { <<Mid, 2>> },
       initialPlayer1 |-> { <<Mid, 4>>, <<Mid - 1, 1>> },
       initialPlayer2 |-> { <<Mid, 1>>, <<Mid, 3>>, <<Mid - 1, 2>> },
       ignoreOcclusion |-> FALSE,
       fewerPiecesContinue |-> FALSE ],
     [ name |-> "FewerPieces",
       boardSize |-> N,
       initialBlocked |-> {},
       initialPlayer1 |-> { <<2, 1>> },
       initialPlayer2 |-> { <<2, 2>>, <<0, 4>>, <<1, 4>>, <<3, 4>>, <<4, 4>> },
       ignoreOcclusion |-> FALSE,
       fewerPiecesContinue |-> TRUE ] >>

\* stages[0] of stages.js as it is written there
Standard8x8 ==
  [ name |-> "Standard 8x8",
    boardSize |-> 8,
    initialBlocked |-> {},
    initialPlayer1 |-> { <<3, 4>>, <<4, 3>> },
    initialPlayer2 |-> { <<3, 3>>, <<4, 4>> },
    ignoreOcclusion |-> FALSE,
    fewerPiecesContinue |-> FALSE ]

\* a stage two moves from its end: the top-left cell and its right neighbour
\* are empty, and Black, who moves first, can take either; White can answer
\* on the second cell but has no move on the first
lastStages ==
  << [ name |-> "LastTwo",
       boardSize |-> 3,
       initialBlocked |-> {},
       initialPlayer1 |-> { <<0, 2>>, <<1, 2>>, <<2, 0>>, <<2, 1>> },
       initialPlayer2 |-> { <<1, 0>>, <<1, 1>>, <<2, 2>> },
       ignoreOcclusion |-> FALSE,
       fewerPiecesContinue |-> FALSE ] >>

LastTwoId == Len(stages) + Len(ruleStages) + 1

\* every stage configuration currentStage may hold in the model
configs == stages \o ruleStages \o lastStages \o << Standard8x8 >>

\* ------------------------------------------------------------ board engine
\* initializeBoard: BOARD_SIZE = stageConfig.boardSize
BOARD_SIZE(stageConfig) == stageConfig.boardSize

isWithinBoard(r, c, size) == r >= 0 /\ r < size /\ c >= 0 /\ c < size

createInitialBoard(stageConfig) ==
  [ r \in 0 .. (stageConfig.boardSize - 1) |->
    [ c \in 0 .. (stageConfig.boardSize - 1) |->
      IF <<r, c>> \in stageConfig.initialBlocked THEN BLOCKED
      ELSE IF <<r, c>> \in stageConfig.initialPlayer1 THEN BLACK
      ELSE IF <<r, c>> \in stageConfig.initialPlayer2 THEN WHITE
      ELSE EMPTY ] ]

Opponent(player) == IF player = BLACK THEN WHITE ELSE BLACK

\* the four diagonals only
directions_DiagonalsOnly == << <<-1, -1>>, <<-1, 1>>, <<1, -1>>, <<1, 1>> >>

directions == << <<-1, -1>>, <<-1, 0>>, <<-1, 1>>, <<0, -1>>,
                 <<0, 1>>, <<1, -1>>, <<1, 0>>, <<1, 1>> >>

\* the while loop of isValidMove for one direction, from cell (r, c)
RECURSIVE ValidScan(_, _, _, _, _, _, _, _, _)
ValidScan(b, r, c, dr, dc, player, foundOpponent, foundBlocked, stageConfig) ==
  IF ~isWithinBoard(r, c, BOARD_SIZE(stageConfig)) THEN FALSE
  ELSE IF b[r][c] = Opponent(player)
    THEN ValidScan(b, r + dr, c + dc, dr, dc, player, TRUE, foundBlocked, stageConfig)
  ELSE IF b[r][c] = BLOCKED
    THEN IF ~stageConfig.ignoreOcclusion THEN FALSE
         ELSE ValidScan(b, r + dr, c + dc, dr, dc, player, foundOpponent, TRUE, stageConfig)
  ELSE IF b[r][c] = EMPTY THEN FALSE
  ELSE IF b[r][c] = player
    THEN foundOpponent /\ (~foundBlocked \/ stageConfig.ignoreOcclusion)
  ELSE ValidScan(b, r + dr, c + dc, dr, dc, player, foundOpponent, foundBlocked, stageConfig)

isValidMove(row, col, player, currentBoard, stageConfig) ==
  /\ isWithinBoard(row, col, BOARD_SIZE(stageConfig))
  /\ currentBoard[row][col] = EMPTY
  /\ \E i \in 1 .. Len(directions) :
       ValidScan(currentBoard, row + directions[i][1], col + directions[i][2],
                 directions[i][1], directions[i][2], player, FALSE, FALSE,
                 stageConfig)

\* the cells column by column
CellAt_ColumnMajor(k, size) == <<(k - 1) % size, (k - 1) \div size>>

\* row-major enumeration of the cells, as the two nested loops visit them
CellAt(k, size) == <<(k - 1) \div size, (k - 1) % size>>

RECURSIVE ValidMovesFrom(_, _, _, _, _)
ValidMovesFrom(k, size, player, currentBoard, stageConfig) ==
  IF k > size * size THEN << >>
  ELSE LET rc == CellAt(k, size)
           rest == ValidMovesFrom(k + 1, size, player, currentBoard, stageConfig)
       IN IF isValidMove(rc[1], rc[2], player, currentBoard, stageConfig)
          THEN << [row |-> rc[1], col |-> rc[2]] >> \o rest
          ELSE rest

\* const size = currentBoard.length
getValidMoves(player, currentBoard, stageConfig) ==
  ValidMovesFrom(1, Cardinality(DOMAIN currentBoard), player, currentBoard, stageConfig)

\* the loop of makeMove with a Blocked cell that, when it is passed, drops
\* the discs collected before it
RECURSIVE FlipScan_ForgetsAtBlocked(_, _, _, _, _, _, _, _, _, _)
FlipScan_ForgetsAtBlocked(b, r, c, dr, dc, player, toFlip, foundOpponent, foundBlocked, stageConfig) ==
  IF ~isWithinBoard(r, c, BOARD_SIZE(stageConfig)) THEN {}
  ELSE IF b[r][c] = Opponent(player)
    THEN FlipScan_ForgetsAtBlocked(b, r + dr, c + dc, dr, dc, player,
                                   toFlip \cup {<<r, c>>}, TRUE, foundBlocked, stageConfig)
  ELSE IF b[r][c] = BLOCKED
    THEN IF ~stageConfig.ignoreOcclusion THEN {}
         ELSE FlipScan_ForgetsAtBlocked(b, r + dr, c + dc, dr, dc, player, {},
                                        foundOpponent, TRUE, stageConfig)
  ELSE IF b[r][c] = EMPTY THEN {}
  ELSE IF b[r][c] = player
    THEN IF foundOpponent /\ toFlip # {} /\ (~foundBlocked \/ stageConfig.ignoreOcclusion)
         THEN toFlip ELSE {}
  ELSE {}

\* the while loop of makeMove for one direction: the cells it flips
RECURSIVE FlipScan(_, _, _, _, _, _, _, _, _, _)
FlipScan(b, r, c, dr, dc, player, toFlip, foundOpponent, foundBlocked, stageConfig) ==
  IF ~isWithinBoard(r, c, BOARD_SIZE(stageConfig)) THEN {}
  ELSE IF b[r][c] = Opponent(player)
    THEN FlipScan(b, r + dr, c + dc, dr, dc, player, toFlip \cup {<<r, c>>},
                  TRUE, foundBlocked, stageConfig)
  ELSE IF b[r][c] = BLOCKED
    THEN IF ~stageConfig.ignoreOcclusion THEN {}
         ELSE FlipScan(b, r + dr, c + dc, dr, dc, player, toFlip,
                       foundOpponent, TRUE, stageConfig)
  ELSE IF b[r][c] = EMPTY THEN {}
  ELSE IF b[r][c] = player
    THEN IF foundOpponent /\ toFlip # {} /\ (~foundBlocked \/ stageConfig.ignoreOcclusion)
         THEN toFlip ELSE {}
  ELSE FlipScan(b, r + dr, c + dc, dr, dc, player, toFlip,
                foundOpponent, foundBlocked, stageConfig)

SetCells(b, cells, v) ==
  [ r \in DOMAIN b |-> [ c \in DOMAIN b[r] |-> IF <<r, c>> \in cells THEN v ELSE b[r][c] ] ]

\* the for loop of makeMove over the directions, from direction i on
RECURSIVE FlipAll(_, _, _, _, _, _, _)
FlipAll(i, b, row, col, player, captured, stageConfig) ==
  IF i > Len(directions) THEN [board |-> b, captured |-> captured]
  ELSE CHOOSE done \in
         { FlipAll(i + 1, nb, row, col, player, n, stageConfig)
           : <<nb, n>> \in
               { <<SetCells(b, f, player), captured + Cardinality(f)>>
                 : f \in { FlipScan(b, row + directions[i][1], col + directions[i][2],
                                    directions[i][1], directions[i][2], player, {},
                                    FALSE, FALSE, stageConfig) } } } : TRUE

\* makeMove that puts down a disc of the other colour
makeMove_PlacesForOpponent(row, col, player, b, stageConfig) ==
  IF ~isWithinBoard(row, col, BOARD_SIZE(stageConfig)) \/ b[row][col] # EMPTY
  THEN [board |-> b, ret |-> FALSE, placed |-> FALSE, captured |-> 0]
  ELSE [board |-> SetCells(b, {<<row, col>>}, Opponent(player)), ret |-> FALSE,
        placed |-> TRUE, captured |-> 0]

\* makeMove on board b: the board afterwards, the value returned, whether a
\* disc was placed (and so the move logged), and the number of discs flipped
makeMove(row, col, player, b, stageConfig) ==
  IF ~isWithinBoard(row, col, BOARD_SIZE(stageConfig)) \/ b[row][col] # EMPTY
  THEN [board |-> b, ret |-> FALSE, placed |-> FALSE, captured |-> 0]
  ELSE CHOOSE moved \in
         { [board |-> res.board, ret |-> res.captured > 0, placed |-> TRUE,
            captured |-> res.captured]
           : res \in { FlipAll(1, SetCells(b, {<<row, col>>}, player), row, col,
                               player, 0, stageConfig) } } : TRUE

CountOf(b, v) ==
  Cardinality({ rc \in (DOMAIN b) \X (DOMAIN b) : b[rc[1]][rc[2]] = v })

countDiscs(boardState) ==
  [black |-> CountOf(boardState, BLACK), white |-> CountOf(boardState, WHITE)]

\* determineNextPlayer without the fewer-pieces rule
determineNextPlayer_AlwaysAlternates(b, cur, stageConfig) == Opponent(cur)

determineNextPlayer(b, cur, stageConfig) ==
  IF ~stageConfig.fewerPiecesContinue THEN Opponent(cur)
  ELSE LET scores == countDiscs(b)
       IN IF scores.black < scores.white THEN BLACK
          ELSE IF scores.white < scores.black THEN WHITE
          ELSE Opponent(cur)


\* ------------------------------------------------------------------ state
VARIABLES
  board,               \* OthelloCore.board
  currentStage,        \* OthelloCore.currentStage, as an index into stages
  currentPlayer,       \* OthelloCore.currentPlayer
  gameRunning,         \* OthelloCore.gameRunning
  gameOver,            \* OthelloCore.gameOver
  blackTimeUsed,       \* GameController.blackTimeUsed
  whiteTimeUsed,       \* GameController.whiteTimeUsed
  gameLoopTimeout,     \* the pending ply callback of makeAIMove, or NoTimer
  isTournamentMode,    \* GameController.isTournamentMode
  aiThinking,          \* OthelloUI.aiThinking
  startButtonDisabled, \* elements.startButton.disabled
  stageSelect,         \* value of the stage drop-down
  blackAI,             \* value of the black-ai drop-down
  whiteAI,             \* value of the white-ai drop-down
  startTimers,         \* pending 10 ms callbacks of startGame
  inflight,            \* strategy invocations started and not yet settled
  hostBlocked,         \* the host thread is inside a call that never returns
  moveCount,           \* discs placed by the scheduler and the human so far
  userEvents,          \* button presses so far
  opsUsed,             \* uses strategies made of their arguments so far
  savedStrategies,     \* OthelloStrategies.savedStrategies: name -> source
  compiledStudentAIs,  \* OthelloStrategies.compiledStudentAIs: name -> callable
  compiledIntelligentSystems, \* window.compiledIntelligentSystems
  intelligentSystems,  \* window.intelligentSystems: system name -> source
  localStorage,        \* the item 'othelloStrategies' of localStorage
  console,             \* window.console
  compiles,            \* callables created so far (their identities)
  scopes,              \* callable -> the variables it keeps between calls
  registryOps,         \* calls of the registry and uploads so far
  gameLogger,          \* the GameLogger instance: gameResults, previousGames
  sessionStorage,      \* the items of sessionStorage: key -> JSON text
  otherItems,          \* the other items of localStorage: key -> JSON text
  tournament,          \* the variables of Tournament and its running loops
  ev                   \* what the last step did (history)

coreVars == <<board, currentStage, currentPlayer, gameRunning, gameOver>>
ctlVars == <<blackTimeUsed, whiteTimeUsed, gameLoopTimeout, isTournamentMode,
             gameLogger, sessionStorage>>
uiVars == <<aiThinking, startButtonDisabled, stageSelect, blackAI, whiteAI>>
envVars == <<startTimers, inflight, hostBlocked, moveCount, userEvents, opsUsed>>
regVars == <<savedStrategies, compiledStudentAIs, compiledIntelligentSystems,
             intelligentSystems, localStorage, console, compiles, scopes,
             registryOps, otherItems, tournament>>
vars == <<coreVars, ctlVars, uiVars, envVars, regVars, ev>>

\* no pending ply callback. A pending one is due 20 ms after it was set, so
\* after the 10 ms callbacks of startGame that were pending then: after counts
\* those of them still to fire
NoTimer ==
  [set |-> FALSE, player |-> 0, validMoves |-> << >>, isTournament |-> FALSE,
   after |-> 0]

\* controllers a drop-down can hold: the human, a strategy that compiles, and
\* a custom id whose code is not saved (getCompiledStrategy returns null)
ControllerIds == {"human", "custom_s", "custom_gone"}

\* the built-in strategies, which a tournament enters
BuiltInIds == { "random", "greedy", "corners", "positional" }

getCompiledStrategy(controllerId) == controllerId \in {"custom_s"} \cup BuiltInIds

Elements(seq) == { seq[i] : i \in 1 .. Len(seq) }

\* validMoves[Math.floor(Math.random() * validMoves.length)] for a draw close
\* to 0 and a draw close to 1
RandomPicks(seq) == { seq[1], seq[Len(seq)] }

RemoveAt(seq, i) == SubSeq(seq, 1, i - 1) \o SubSeq(seq, i + 1, Len(seq))

\* the program state a handler works on, with the history of the step so far
S ==
  [ board |-> board, currentStage |-> currentStage,
    currentPlayer |-> currentPlayer, gameRunning |-> gameRunning,
    gameOver |-> gameOver, blackTimeUsed |-> blackTimeUsed,
    whiteTimeUsed |-> whiteTimeUsed, gameLoopTimeout |-> gameLoopTimeout,
    isTournamentMode |-> isTournamentMode, aiThinking |-> aiThinking,
    startButtonDisabled |-> startButtonDisabled, moveCount |-> moveCount,
    startTimers |-> startTimers,
    gameLogger |-> gameLogger, sessionStorage |-> sessionStorage,
    applied |-> << >>, ended |-> << >>, passes |-> << >>, turns |-> 0,
    last |-> [board |-> board, black |-> blackTimeUsed, white |-> whiteTimeUsed] ]

Commit(t) ==
  /\ board' = t.board
  /\ currentStage' = t.currentStage
  /\ currentPlayer' = t.currentPlayer
  /\ gameRunning' = t.gameRunning
  /\ gameOver' = t.gameOver
  /\ blackTimeUsed' = t.blackTimeUsed
  /\ whiteTimeUsed' = t.whiteTimeUsed
  /\ gameLoopTimeout' = t.gameLoopTimeout
  /\ isTournamentMode' = t.isTournamentMode
  /\ aiThinking' = t.aiThinking
  /\ startButtonDisabled' = t.startButtonDisabled
  /\ moveCount' = t.moveCount
  /\ gameLogger' = t.gameLogger
  /\ sessionStorage' = t.sessionStorage

StageOf(s) == configs[s.currentStage]

ControllerOf(player) == IF player = BLACK THEN blackAI ELSE whiteAI

TimeOf(s, player) == IF player = BLACK THEN s.blackTimeUsed ELSE s.whiteTimeUsed

AddTime(s, player, ms) ==
  IF player = BLACK THEN [s EXCEPT !.blackTimeUsed = @ + ms]
  ELSE [s EXCEPT !.whiteTimeUsed = @ + ms]

\* ------------------------------------------------------------ OthelloCore
initializeBoard(s, stageId, isPreview) ==
  LET t == [s EXCEPT !.currentStage = stageId,
                     !.board = createInitialBoard(configs[stageId])]
  IN IF ~isPreview
     THEN [t EXCEPT !.currentPlayer = BLACK, !.gameOver = FALSE, !.gameRunning = FALSE]
     ELSE [t EXCEPT !.gameOver = TRUE, !.startButtonDisabled = FALSE]

\* JSON.stringify of an array of plain records of numbers and strings, and
\* JSON.parse of such a text: the text holds the same records
Stringify(value) == [json |-> value]

Parse(text) == text.json

\* storage.setItem(key, text) and storage.getItem(key), which is null for a
\* key that was never set
NullItem == [json |-> "null"]

SetItem(storage, key, text) ==
  [ k \in DOMAIN storage \cup {key} |-> IF k = key THEN text ELSE storage[k] ]

GetItem(storage, key) == IF key \in DOMAIN storage THEN storage[key] ELSE NullItem

\* new GameLogger(): no result and no previous game. decided is history: the
\* winner endGame determined for each game it ended since the page was loaded
NewGameLogger == [gameResults |-> << >>, previousGames |-> << >>, decided |-> << >>]

\* GameLogger.saveToLocalStorage
saveToLocalStorage(s) ==
  [s EXCEPT !.sessionStorage =
     SetItem(SetItem(@, "othelloGameResults", Stringify(s.gameLogger.gameResults)),
             "othelloPreviousGames", Stringify(s.gameLogger.previousGames))]

\* saveGameWithLog that pushes the result of a game twice
saveGameWithLog_PushesTwice(s, blackScore, whiteScore, blackStrategy, whiteStrategy, stageConfig) ==
  LET metadata == [blackStrategy |-> blackStrategy, whiteStrategy |-> whiteStrategy,
                   stage |-> stageConfig.name, blackScore |-> blackScore,
                   whiteScore |-> whiteScore]
      result == [blackScore |-> blackScore, whiteScore |-> whiteScore,
                 blackStrategy |-> blackStrategy, whiteStrategy |-> whiteStrategy,
                 stage |-> stageConfig.name,
                 winner |-> IF blackScore > whiteScore THEN BLACK
                            ELSE IF whiteScore > blackScore THEN WHITE
                            ELSE 0]
  IN [result |-> result,
      s |-> saveToLocalStorage(
              [s EXCEPT !.gameLogger.previousGames = Append(@, [metadata |-> metadata]),
                        !.gameLogger.gameResults = Append(Append(@, result), result)])]

\* GameLogger.saveGameWithLog: the result it returns, and the state after it
\* pushed the game and the result and saved both
saveGameWithLog(s, blackScore, whiteScore, blackStrategy, whiteStrategy, stageConfig) ==
  LET metadata == [blackStrategy |-> blackStrategy, whiteStrategy |-> whiteStrategy,
                   stage |-> stageConfig.name, blackScore |-> blackScore,
                   whiteScore |-> whiteScore]
      result == [blackScore |-> blackScore, whiteScore |-> whiteScore,
                 blackStrategy |-> blackStrategy, whiteStrategy |-> whiteStrategy,
                 stage |-> stageConfig.name,
                 winner |-> IF blackScore > whiteScore THEN BLACK
                            ELSE IF whiteScore > blackScore THEN WHITE
                            ELSE 0]
  IN [result |-> result,
      s |-> saveToLocalStorage(
              [s EXCEPT !.gameLogger.previousGames = Append(@, [metadata |-> metadata]),
                        !.gameLogger.gameResults = Append(@, result)])]

\* endGame in which Black takes the drawn games
endGame_BlackTakesTies(s, winner) ==
  IF ~s.gameRunning
  THEN [s EXCEPT !.ended = Append(@, [arg |-> winner, ran |-> FALSE, winner |-> 0,
                                      black |-> 0, white |-> 0, saved |-> 0])]
  ELSE LET scores == countDiscs(s.board)
           w == IF winner # 0 THEN winner
                ELSE IF scores.black >= scores.white THEN BLACK
                ELSE WHITE
           saved == saveGameWithLog(s, scores.black, scores.white, blackAI, whiteAI,
                                    configs[s.currentStage])
       IN [saved.s EXCEPT !.gameRunning = FALSE, !.gameOver = TRUE,
                          !.startButtonDisabled = FALSE,
                          !.gameLogger.decided = Append(@, w),
                          !.ended = Append(@, [arg |-> winner, ran |-> TRUE,
                                               winner |-> w,
                                               black |-> scores.black,
                                               white |-> scores.white,
                                               saved |-> saved.result.winner])]

\* endGame(winner), winner 0 standing for null
endGame(s, winner) ==
  IF ~s.gameRunning
  THEN [s EXCEPT !.ended = Append(@, [arg |-> winner, ran |-> FALSE, winner |-> 0,
                                      black |-> 0, white |-> 0, saved |-> 0])]
  ELSE LET scores == countDiscs(s.board)
           w == IF winner # 0 THEN winner
                ELSE IF scores.black > scores.white THEN BLACK
                ELSE IF scores.white > scores.black THEN WHITE
                ELSE 0
           saved == saveGameWithLog(s, scores.black, scores.white, blackAI, whiteAI,
                                    configs[s.currentStage])
       IN [saved.s EXCEPT !.gameRunning = FALSE, !.gameOver = TRUE,
                          !.startButtonDisabled = FALSE,
                          !.gameLogger.decided = Append(@, w),
                          !.ended = Append(@, [arg |-> winner, ran |-> TRUE,
                                               winner |-> w,
                                               black |-> scores.black,
                                               white |-> scores.white,
                                               saved |-> saved.result.winner])]

\* a call of OthelloCore.makeMove by the scheduler or the human handler; how
\* says which code path chose the move and penalty what that path added
CallMakeMove(s, row, col, player, how, penalty) ==
  LET mm == makeMove(row, col, player, s.board, StageOf(s))
  IN [s EXCEPT !.board = mm.board,
               !.moveCount = @ + (IF mm.placed THEN 1 ELSE 0),
               !.last = [board |-> mm.board, black |-> s.blackTimeUsed,
                         white |-> s.whiteTimeUsed],
               !.applied = Append(@, [turn |-> s.turns,
                                      player |-> player, row |-> row, col |-> col,
                                      placed |-> mm.placed, how |-> how,
                                      penalty |-> penalty,
                                      timeAtApply |-> TimeOf(s, player),
                                      running |-> s.gameRunning,
                                      over |-> s.gameOver])]

\* a pass: logPass(player) and setCurrentPlayer(opponent). The entry says who
\* passed, in which handler, and whether the board and the two time counters
\* are what they were after the last move (or when the handler began)
Pass(s, player, how) ==
  LET t == [s EXCEPT !.currentPlayer = Opponent(player)]
  IN [t EXCEPT !.passes =
        Append(@, [from |-> player, to |-> t.currentPlayer, how |-> how,
                   sameBoard |-> (t.board = s.last.board),
                   sameTime |-> (t.blackTimeUsed = s.last.black
                                 /\ t.whiteTimeUsed = s.last.white)])]

\* ---------------------------------------------------------------- OthelloUI
\* the fill loop of checkTimeLimit without its test for Blocked cells
FillBoard_OverBlocked(b, winningColor) ==
  [ r \in DOMAIN b |-> [ c \in DOMAIN b[r] |-> winningColor ] ]

FillBoard(b, winningColor) ==
  [ r \in DOMAIN b |-> [ c \in DOMAIN b[r] |->
      IF b[r][c] # BLOCKED /\ b[r][c] # winningColor THEN winningColor ELSE b[r][c] ] ]

\* checkTimeLimit with the two colours mixed up: the board goes to the player
\* who ran out of time, and so does the game
checkTimeLimit_WrongWinner(s, player, timeUsed) ==
  IF timeUsed > MAX_AI_TIME_PER_GAME
  THEN [exceeded |-> TRUE,
        s |-> endGame([s EXCEPT !.board = FillBoard(s.board, player)], player)]
  ELSE [exceeded |-> FALSE, s |-> s]

checkTimeLimit(s, player, timeUsed) ==
  IF timeUsed > MAX_AI_TIME_PER_GAME
  THEN [exceeded |-> TRUE,
        s |-> endGame([s EXCEPT !.board = FillBoard(s.board, Opponent(player))],
                      Opponent(player))]
  ELSE [exceeded |-> FALSE, s |-> s]

\* ----------------------------------------------------------- GameController
RECURSIVE makeAIMove(_, _)
RECURSIVE makeAIMoveFrom(_, _)
RECURSIVE useFallbackMove(_, _, _)
RECURSIVE useFallbackMoveFrom(_, _, _)

\* the synchronous part of makeAIMove: the set of states it can leave. The
\* state it starts from is bound as a value (s \in {...}), and so are the
\* states after a move below, so that each is computed once
makeAIMove(s0, isTournament) ==
  UNION { makeAIMoveFrom(s, isTournament) : s \in { [s0 EXCEPT !.turns = @ + 1] } }

\* makeAIMove that only stops thinking when neither player has a move
makeAIMoveFrom_NoEndWithoutMoves(s, isTournament) ==
  IF s.moveCount >= MaxPly THEN {s}
  ELSE IF ~s.gameRunning \/ s.gameOver
  THEN {[s EXCEPT !.aiThinking = FALSE, !.gameLoopTimeout = NoTimer]}
  ELSE LET cur == s.currentPlayer
           controllerId == ControllerOf(cur)
       IN IF controllerId = "human" THEN {[s EXCEPT !.aiThinking = FALSE]}
          ELSE IF ~getCompiledStrategy(controllerId)
          THEN useFallbackMove([s EXCEPT !.aiThinking = TRUE], cur, isTournament)
          ELSE LET validMoves == getValidMoves(cur, s.board, StageOf(s))
                   opponent == Opponent(cur)
               IN IF Len(validMoves) = 0
                  THEN IF Len(getValidMoves(opponent, s.board, StageOf(s))) = 0
                       THEN {[s EXCEPT !.aiThinking = FALSE]}
                       ELSE makeAIMove([Pass(s, cur, "makeAIMove") EXCEPT
                                          !.aiThinking = FALSE], isTournament)
                  ELSE {[s EXCEPT !.aiThinking = TRUE,
                                  !.gameLoopTimeout =
                                     [set |-> TRUE, player |-> cur,
                                      validMoves |-> validMoves,
                                      isTournament |-> isTournament,
                                      after |-> IF isTournament THEN 0
                                                ELSE s.startTimers]]}

makeAIMoveFrom(s, isTournament) ==
  IF s.moveCount >= MaxPly THEN {s}
  ELSE IF ~s.gameRunning \/ s.gameOver
  THEN {[s EXCEPT !.aiThinking = FALSE, !.gameLoopTimeout = NoTimer]}
  ELSE LET cur == s.currentPlayer
           controllerId == ControllerOf(cur)
       IN IF controllerId = "human" THEN {[s EXCEPT !.aiThinking = FALSE]}
          ELSE IF ~getCompiledStrategy(controllerId)
          THEN useFallbackMove([s EXCEPT !.aiThinking = TRUE], cur, isTournament)
          ELSE LET validMoves == getValidMoves(cur, s.board, StageOf(s))
                   opponent == Opponent(cur)
               IN IF Len(validMoves) = 0
                  THEN IF Len(getValidMoves(opponent, s.board, StageOf(s))) = 0
                       THEN {endGame([s EXCEPT !.aiThinking = FALSE], 0)}
                       ELSE makeAIMove([Pass(s, cur, "makeAIMove") EXCEPT
                                          !.aiThinking = FALSE], isTournament)
                  ELSE {[s EXCEPT !.aiThinking = TRUE,
                                  !.gameLoopTimeout =
                                     [set |-> TRUE, player |-> cur,
                                      validMoves |-> validMoves,
                                      isTournament |-> isTournament,
                                      after |-> IF isTournament THEN 0
                                                ELSE s.startTimers]]}

\* useFallbackMove that charges the fallback time before it looks for a pass
useFallbackMoveFrom_ChargesThePass(s, player, isTournament) ==
  LET s1 == AddTime(s, player, randomStrategyTime)
      validMoves == getValidMoves(player, s1.board, StageOf(s1))
      opponent == Opponent(player)
      ck == checkTimeLimit(s1, player, TimeOf(s1, player))
  IN IF Len(validMoves) = 0
     THEN IF Len(getValidMoves(opponent, s1.board, StageOf(s1))) = 0
          THEN {endGame([s1 EXCEPT !.aiThinking = FALSE], 0)}
          ELSE makeAIMove([Pass(s1, player, "useFallbackMove") EXCEPT
                             !.aiThinking = FALSE], isTournament)
     ELSE IF ck.exceeded THEN {ck.s}
     ELSE UNION { makeAIMove([s2 EXCEPT
                                !.currentPlayer =
                                   determineNextPlayer(s2.board, s2.currentPlayer,
                                                       StageOf(s2)),
                                !.aiThinking = FALSE], isTournament)
                  : s2 \in { CallMakeMove(s1, m.row, m.col, player,
                                          "useFallbackMove", randomStrategyTime)
                             : m \in RandomPicks(validMoves) } }

useFallbackMove(s0, player, isTournament) ==
  UNION { useFallbackMoveFrom(s, player, isTournament) : s \in {s0} }

useFallbackMoveFrom(s, player, isTournament) ==
  LET validMoves == getValidMoves(player, s.board, StageOf(s))
      opponent == Opponent(player)
  IN IF Len(validMoves) = 0
     THEN IF Len(getValidMoves(opponent, s.board, StageOf(s))) = 0
          THEN {endGame([s EXCEPT !.aiThinking = FALSE], 0)}
          ELSE makeAIMove([Pass(s, player, "useFallbackMove") EXCEPT
                             !.aiThinking = FALSE], isTournament)
     ELSE LET s1 == AddTime(s, player, randomStrategyTime)
              ck == checkTimeLimit(s1, player, TimeOf(s1, player))
          IN IF ck.exceeded THEN {ck.s}
             ELSE UNION { makeAIMove([s2 EXCEPT
                                        !.currentPlayer =
                                           determineNextPlayer(s2.board, s2.currentPlayer,
                                                               StageOf(s2)),
                                        !.aiThinking = FALSE], isTournament)
                          : s2 \in { CallMakeMove(s1, m.row, m.col, player,
                                                  "useFallbackMove", randomStrategyTime)
                                     : m \in RandomPicks(validMoves) } }


\* what a strategy call can hand back: a coordinate, null, an exception, or
\* an object whose row property throws when the scheduler reads it
ResultCells == { <<0, 0>>, <<1, 0>> }

Results ==
  { [kind |-> "move", row |-> rc[1], col |-> rc[2]] : rc \in ResultCells }
  \cup { [kind |-> k, row |-> -1, col |-> -1] : k \in {"null", "throw", "poison"} }

\* makeAIMove from the end of the race on: the time accounting, the time
\* check, the validation of the move, makeMove and the next turn
afterRace(s, inv, res, elapsed) ==
  LET player == inv.player
      s1 == AddTime(s, player, elapsed)
      ck == checkTimeLimit(s1, player, TimeOf(s1, player))
      validMoves == inv.validMoves
      isReturnedMoveInList ==
        /\ res.kind = "move"
        /\ \E v \in Elements(validMoves) : v.row = res.row /\ v.col = res.col
      finish(m, how) ==
        UNION { makeAIMove([s2 EXCEPT
                              !.currentPlayer =
                                 determineNextPlayer(s2.board, s2.currentPlayer,
                                                     StageOf(s2)),
                              !.aiThinking = FALSE], inv.isTournament)
                : s2 \in { CallMakeMove(s1, m.row, m.col, player, how, 0) } }
  IN IF ck.exceeded THEN {ck.s}
     ELSE IF res.kind = "poison" /\ Len(validMoves) > 0
     THEN \* the catch block of the ply callback
          LET ck2 == checkTimeLimit(s1, player, TimeOf(s1, player))
          IN IF ck2.exceeded THEN {ck2.s}
             ELSE useFallbackMove(s1, player, inv.isTournament)
     ELSE IF ~isReturnedMoveInList
     THEN IF Len(validMoves) = 0
          THEN useFallbackMove(s1, player, inv.isTournament)
          ELSE UNION { finish(m, "inline") : m \in RandomPicks(validMoves) }
     ELSE finish(res, "strategy")

\* ---------------------------------------------------------------- history
EvBase ==
  [ kind |-> "init", player |-> 0, res |-> "none", resRow |-> -1, resCol |-> -1,
    elapsed |-> 0,
    timedOut |-> FALSE, late |-> FALSE, timeBefore |-> 0,
    precomputed |-> << >>, listAtReturn |-> << >>, applied |-> << >>,
    ended |-> << >>, turns |-> 0,
    op |-> "none", wasValid |-> FALSE, ret |-> FALSE,
    boardChanged |-> FALSE, listChanged |-> FALSE,
    placed |-> FALSE, before |-> << >>, moves |-> << >>,
    passes |-> << >>, onCell |-> FALSE, invGame |-> "none" ]

Hist(t, kind) ==
  [EvBase EXCEPT !.kind = kind, !.applied = t.applied, !.ended = t.ended,
                 !.passes = t.passes, !.turns = t.turns]

\* ------------------------------------------------------------------ actions
\* a JavaScript object used as a map: its own properties, as a function from
\* the keys it has; none at first
EmptyObject == [ k \in {} |-> 0 ]

\* Tournament when the page is loaded: no leaderboard, the Run button
\* enabled, and no call of runTournament in its loop
NewLeaderboard == [matches |-> << >>, results |-> EmptyObject]

NewTournament ==
  [ isTournamentMode |-> FALSE, leaderboardData |-> NewLeaderboard,
    currentTournamentStageConfig |-> 0, runButtonDisabled |-> FALSE,
    loops |-> << >> ]

\* the registry of a page on which nothing is saved: empty maps, nothing in
\* localStorage, the console of the browser
RegInit ==
  /\ savedStrategies = EmptyObject
  /\ compiledStudentAIs = EmptyObject
  /\ compiledIntelligentSystems = EmptyObject
  /\ intelligentSystems = EmptyObject
  /\ localStorage = EmptyObject
  /\ console = "original"
  /\ compiles = 0
  /\ scopes = EmptyObject
  /\ registryOps = 0
  /\ gameLogger = NewGameLogger
  /\ sessionStorage = EmptyObject
  /\ otherItems = EmptyObject
  /\ tournament = NewTournament

Init ==
  /\ board = createInitialBoard(stages[1])
  /\ currentStage = 1
  /\ currentPlayer = BLACK
  /\ gameRunning = FALSE
  /\ gameOver = TRUE
  /\ blackTimeUsed = 0
  /\ whiteTimeUsed = 0
  /\ gameLoopTimeout = NoTimer
  /\ isTournamentMode = FALSE
  /\ aiThinking = FALSE
  /\ startButtonDisabled = FALSE
  /\ stageSelect = 1
  /\ blackAI \in ControllerIds
  /\ whiteAI \in ControllerIds
  /\ startTimers = 0
  /\ inflight = << >>
  /\ hostBlocked = FALSE
  /\ moveCount = 0
  /\ userEvents = 0
  /\ opsUsed = 0
  /\ RegInit
  /\ ev = EvBase

\* the invocations still in flight when a game starts belong to an earlier
\* game from then on (history: the program keeps no such mark)
EarlierGame(calls) ==
  [ i \in DOMAIN calls |-> [calls[i] EXCEPT !.game = "earlier"] ]

\* GameController.startGame(isTournament, stageConfig), up to the 10 ms timer
\* it sets for the first makeAIMove
startGame(s, isTournament, stageId) ==
  [initializeBoard(s, stageId, FALSE) EXCEPT
     !.gameRunning = TRUE, !.currentPlayer = BLACK,
     !.blackTimeUsed = 0, !.whiteTimeUsed = 0,
     !.startButtonDisabled = TRUE, !.isTournamentMode = isTournament]

\* click on Start Game: startGame(false, stages[stageSelect])
StartGameClick ==
  /\ ~hostBlocked
  /\ ~startButtonDisabled
  /\ userEvents < MaxUserEvents
  /\ \E t \in { startGame(S, FALSE, stageSelect) } :
       Commit(t) /\ ev' = Hist(t, "start")
  /\ startTimers' = startTimers + 1
  /\ userEvents' = userEvents + 1
  /\ opsUsed' = opsUsed
  /\ inflight' = EarlierGame(inflight)
  /\ UNCHANGED <<stageSelect, blackAI, whiteAI, hostBlocked>>
  /\ UNCHANGED regVars

\* the 10 ms callback of startGame(isTournament, ...)
StartTimer(isTournament) ==
  /\ ~hostBlocked
  /\ startTimers > 0
  /\ startTimers' = startTimers - 1
  /\ LET s == [S EXCEPT !.startTimers = @ - 1,
                        !.gameLoopTimeout.after = IF @ > 0 THEN @ - 1 ELSE 0]
     IN IF ~gameRunning \/ gameOver
        THEN Commit(s) /\ ev' = Hist(s, "startTimer")
        ELSE \E t \in makeAIMove(s, isTournament) :
               Commit(t) /\ ev' = Hist(t, "startTimer")
  /\ UNCHANGED <<stageSelect, blackAI, whiteAI, inflight, hostBlocked, userEvents, opsUsed>>
  /\ UNCHANGED regVars

StartTimerFires == StartTimer(FALSE)

\* click on Reset Board: resetGame(stages[stageSelect], true)
ResetClick ==
  /\ ~hostBlocked
  /\ userEvents < MaxUserEvents
  /\ LET t0 == [S EXCEPT !.gameLoopTimeout = NoTimer, !.gameRunning = FALSE,
                         !.aiThinking = FALSE]
         t1 == initializeBoard(t0, stageSelect, TRUE)
         t == [t1 EXCEPT !.currentPlayer = BLACK, !.startButtonDisabled = FALSE]
     IN Commit(t) /\ ev' = Hist(t, "reset")
  /\ userEvents' = userEvents + 1
  /\ opsUsed' = opsUsed
  /\ UNCHANGED <<stageSelect, blackAI, whiteAI, startTimers, inflight, hostBlocked>>
  /\ UNCHANGED regVars

\* change of the stage drop-down: onStageChange
StageChange(j) ==
  /\ ~hostBlocked
  /\ userEvents < MaxUserEvents
  /\ j # stageSelect
  /\ stageSelect' = j
  /\ LET t == initializeBoard(S, j, TRUE)
     IN Commit(t) /\ ev' = Hist(t, "stage")
  /\ userEvents' = userEvents + 1
  /\ opsUsed' = opsUsed
  /\ UNCHANGED <<blackAI, whiteAI, startTimers, inflight, hostBlocked>>
  /\ UNCHANGED regVars

\* an invocation whose deadline is the whole budget on every turn
NewInvocation_FixedDeadline(tm) ==
  [ player |-> tm.player, validMoves |-> tm.validMoves,
    precomputed |-> tm.validMoves, isTournament |-> tm.isTournament,
    delay |-> MAX_AI_TIME_PER_GAME,
    boardArg |-> board, ops |-> 0, game |-> "current" ]

\* the invocation the ply callback starts: the strategy gets a copy of the
\* board, the validMoves array itself, and OthelloCore.makeMove itself
NewInvocation(tm) ==
  [ player |-> tm.player, validMoves |-> tm.validMoves,
    precomputed |-> tm.validMoves, isTournament |-> tm.isTournament,
    delay |-> MAX_AI_TIME_PER_GAME
              - (IF tm.player = BLACK THEN blackTimeUsed ELSE whiteTimeUsed),
    boardArg |-> board, ops |-> 0, game |-> "current" ]

\* the ply callback of makeAIMove fires and calls the strategy, which returns
\* a promise ("async"), blocks the host and returns after the deadline
\* ("late"), or never returns ("hang")
PlyTimerFires(mode, res) ==
  /\ ~hostBlocked
  /\ gameLoopTimeout.set
  /\ gameLoopTimeout.after = 0
  /\ LET tm == gameLoopTimeout
         s == [S EXCEPT !.gameLoopTimeout = NoTimer]
         inv == NewInvocation(tm)
     IN IF ~gameRunning \/ gameOver
        THEN /\ mode = "async" /\ res.kind = "null"
             /\ Commit([s EXCEPT !.aiThinking = FALSE])
             /\ ev' = Hist(s, "plyAbort")
             /\ UNCHANGED <<inflight, hostBlocked>>
        ELSE /\ Len(inflight) < MaxInFlight
             /\ CASE mode = "async" ->
                       /\ res.kind = "null"
                       /\ Commit(s)
                       /\ inflight' = Append(inflight, inv)
                       /\ ev' = [Hist(s, "call") EXCEPT !.player = inv.player,
                                                        !.precomputed = inv.precomputed]
                       /\ UNCHANGED hostBlocked
                  [] mode = "hang" ->
                       /\ res.kind = "null"
                       /\ Commit(s)
                       /\ inflight' = Append(inflight, inv)
                       /\ hostBlocked' = TRUE
                       /\ ev' = [Hist(s, "call") EXCEPT !.player = inv.player,
                                                        !.precomputed = inv.precomputed]
                  [] mode = "late" ->
                       /\ \E t \in afterRace(s, inv, res, LateTime) :
                            /\ Commit(t)
                            /\ ev' = [Hist(t, "complete") EXCEPT
                                        !.invGame = inv.game,
                                        !.player = inv.player, !.res = res.kind,
                                        !.resRow = res.row, !.resCol = res.col,
                                        !.elapsed = LateTime, !.late = TRUE,
                                        !.timeBefore = TimeOf(s, inv.player),
                                        !.precomputed = inv.precomputed,
                                        !.listAtReturn = inv.validMoves]
                       /\ UNCHANGED <<inflight, hostBlocked>>
  /\ UNCHANGED <<stageSelect, blackAI, whiteAI, startTimers, userEvents, opsUsed>>
  /\ UNCHANGED regVars


Max(a, b) == IF a > b THEN a ELSE b

SetInv(i, inv) == [inflight EXCEPT ![i] = inv]

progVars == <<coreVars, ctlVars, aiThinking, startButtonDisabled, moveCount>>

\* coordinates a strategy may pass to the makeMove it was handed
OpCells == { <<-1, 0>>, <<0, 0>>, <<0, 1>>, <<1, 0>>, <<1, 1>> }
\* cells it may push onto the validMoves array
PushCells == { <<0, 0>>, <<1, 1>> }

\* the pending strategy i calls its fourth argument, OthelloCore.makeMove
StrategyCallsMakeMove(i, rc, p) ==
  /\ ~hostBlocked
  /\ i \in 1 .. Len(inflight)
  /\ opsUsed < MaxStrategyOps
  /\ p = inflight[i].player
  /\ LET mm == makeMove(rc[1], rc[2], p, board, configs[currentStage])
     IN /\ board' = mm.board
        /\ ev' = [EvBase EXCEPT !.kind = "strategyOp", !.op = "makeMove",
                                !.player = inflight[i].player,
                                !.wasValid = isValidMove(rc[1], rc[2], p, board,
                                                         configs[currentStage]),
                                !.ret = mm.ret,
                                !.boardChanged = (mm.board # board)]
  /\ inflight' = SetInv(i, [inflight[i] EXCEPT !.ops = @ + 1])
  /\ UNCHANGED <<currentStage, currentPlayer, gameRunning, gameOver, ctlVars, uiVars,
                 startTimers, hostBlocked, moveCount, userEvents>>
  /\ opsUsed' = opsUsed + 1
  /\ UNCHANGED regVars

\* the pending strategy i edits its third argument, the validMoves array:
\* validMoves.length = 0, or validMoves.push({row, col})
StrategyEditsMoves(i, edit, rc) ==
  /\ ~hostBlocked
  /\ i \in 1 .. Len(inflight)
  /\ opsUsed < MaxStrategyOps
  /\ LET inv == inflight[i]
         list == IF edit = "clear" THEN << >>
                 ELSE Append(inv.validMoves, [row |-> rc[1], col |-> rc[2]])
     IN /\ (edit = "clear" => rc = <<0, 0>>)
        /\ inflight' = SetInv(i, [inv EXCEPT !.validMoves = list, !.ops = @ + 1])
        /\ ev' = [EvBase EXCEPT !.kind = "strategyOp", !.op = edit,
                                !.player = inv.player,
                                !.listChanged = (list # inv.validMoves)]
  /\ UNCHANGED <<progVars, stageSelect, blackAI, whiteAI, startTimers, hostBlocked,
                 userEvents>>
  /\ opsUsed' = opsUsed + 1
  /\ UNCHANGED regVars

\* the pending strategy i writes its own disc on its first argument, the
\* board copy, at one of the legal moves (as the greedy built-in simulates)
StrategyWritesBoard(i, k) ==
  /\ ~hostBlocked
  /\ i \in 1 .. Len(inflight)
  /\ opsUsed < MaxStrategyOps
  /\ LET inv == inflight[i]
     IN /\ k \in 1 .. Len(inv.precomputed)
        /\ inflight' = SetInv(i, [inv EXCEPT
              !.boardArg = SetCells(@, { <<inv.precomputed[k].row, inv.precomputed[k].col>> },
                                    inv.player),
              !.ops = @ + 1])
        /\ ev' = [EvBase EXCEPT !.kind = "strategyOp", !.op = "writeBoard",
                                !.player = inv.player]
  /\ UNCHANGED <<progVars, stageSelect, blackAI, whiteAI, startTimers, hostBlocked,
                 userEvents>>
  /\ opsUsed' = opsUsed + 1
  /\ UNCHANGED regVars

\* the promise of the pending strategy i settles before the deadline timer
StrategyReturns(i, res, elapsed) ==
  /\ ~hostBlocked
  /\ i \in 1 .. Len(inflight)
  /\ elapsed <= Max(inflight[i].delay, 0)
  /\ LET inv == inflight[i]
     IN \E t \in afterRace(S, inv, res, elapsed) :
          /\ Commit(t)
          /\ ev' = [Hist(t, "complete") EXCEPT
                      !.invGame = inv.game,
                      !.player = inv.player, !.res = res.kind, !.elapsed = elapsed,
                      !.resRow = res.row, !.resCol = res.col,
                      !.timeBefore = TimeOf(S, inv.player),
                      !.precomputed = inv.precomputed,
                      !.listAtReturn = inv.validMoves]
  /\ inflight' = RemoveAt(inflight, i)
  /\ UNCHANGED <<stageSelect, blackAI, whiteAI, startTimers, hostBlocked, userEvents, opsUsed>>
  /\ UNCHANGED regVars

\* the deadline timer of the pending strategy i fires first: the race
\* rejects and the catch handler turns that into a null move
DeadlineFires(i, lag) ==
  /\ ~hostBlocked
  /\ i \in 1 .. Len(inflight)
  /\ LET inv == inflight[i]
         elapsed == Max(inv.delay, 0) + lag
         res == [kind |-> "null", row |-> -1, col |-> -1]
     IN \E t \in afterRace(S, inv, res, elapsed) :
          /\ Commit(t)
          /\ ev' = [Hist(t, "complete") EXCEPT
                      !.invGame = inv.game,
                      !.player = inv.player, !.res = "null", !.elapsed = elapsed,
                      !.timedOut = TRUE,
                      !.timeBefore = TimeOf(S, inv.player),
                      !.precomputed = inv.precomputed,
                      !.listAtReturn = inv.validMoves]
  /\ inflight' = RemoveAt(inflight, i)
  /\ UNCHANGED <<stageSelect, blackAI, whiteAI, startTimers, hostBlocked, userEvents, opsUsed>>
  /\ UNCHANGED regVars

\* handleHumanMove that takes the clicked cell for a move without asking
\* isValidMove
handleHumanMove_AppliesAnyClick(s, onCell, rc) ==
  LET cur == s.currentPlayer
      isHumanTurn == ControllerOf(cur) = "human"
      stage == StageOf(s)
      opponent == Opponent(cur)
  IN IF ~isHumanTurn \/ ~s.gameRunning \/ s.gameOver THEN {s}
     ELSE IF ~s.aiThinking /\ Len(getValidMoves(cur, s.board, stage)) = 0
     THEN IF Len(getValidMoves(opponent, s.board, stage)) = 0
          THEN {endGame(s, 0)}
          ELSE makeAIMove(Pass(s, cur, "human"), FALSE)
     ELSE IF ~onCell \/ s.aiThinking THEN {s}
     ELSE LET s1 == CallMakeMove(s, rc[1], rc[2], cur, "human", 0)
              nextPlayer == determineNextPlayer(s1.board, s1.currentPlayer, stage)
              s2 == [s1 EXCEPT !.currentPlayer = nextPlayer]
              s3 == IF cur = nextPlayer
                       /\ Len(getValidMoves(nextPlayer, s2.board, stage)) = 0
                    THEN Pass(s2, nextPlayer, "human")
                    ELSE s2
          IN IF /\ Len(getValidMoves(BLACK, s3.board, stage)) = 0
                /\ Len(getValidMoves(WHITE, s3.board, stage)) = 0
             THEN {endGame(s3, 0)}
             ELSE makeAIMove(s3, FALSE)

\* OthelloUI.handleHumanMove for a click on the board, on cell rc or
\* (onCell false) between the cells
handleHumanMove(s, onCell, rc) ==
  LET cur == s.currentPlayer
      isHumanTurn == ControllerOf(cur) = "human"
      stage == StageOf(s)
      opponent == Opponent(cur)
  IN IF ~isHumanTurn \/ ~s.gameRunning \/ s.gameOver THEN {s}
     ELSE IF ~s.aiThinking /\ Len(getValidMoves(cur, s.board, stage)) = 0
     THEN IF Len(getValidMoves(opponent, s.board, stage)) = 0
          THEN {endGame(s, 0)}
          ELSE makeAIMove(Pass(s, cur, "human"), FALSE)
     ELSE IF ~onCell \/ s.aiThinking THEN {s}
     ELSE IF isValidMove(rc[1], rc[2], cur, s.board, stage)
     THEN LET s1 == CallMakeMove(s, rc[1], rc[2], cur, "human", 0)
              nextPlayer == determineNextPlayer(s1.board, s1.currentPlayer, stage)
              s2 == [s1 EXCEPT !.currentPlayer = nextPlayer]
              s3 == IF cur = nextPlayer
                       /\ Len(getValidMoves(nextPlayer, s2.board, stage)) = 0
                    THEN Pass(s2, nextPlayer, "human")
                    ELSE s2
          IN IF /\ Len(getValidMoves(BLACK, s3.board, stage)) = 0
                /\ Len(getValidMoves(WHITE, s3.board, stage)) = 0
             THEN {endGame(s3, 0)}
             ELSE makeAIMove(s3, FALSE)
     ELSE {s}

\* cells the human may click
ClickCells == { <<0, 0>>, <<1, 0>>, <<1, 1>> }

HumanClick(onCell, rc) ==
  /\ ~hostBlocked
  /\ moveCount < MaxPly
  /\ (~onCell => rc = <<0, 0>>)
  /\ \E t \in handleHumanMove(S, onCell, rc) :
       /\ Commit(t)
       /\ ev' = [Hist(t, "human") EXCEPT
                   !.player = currentPlayer,
                   !.onCell = onCell,
                   !.wasValid = onCell /\ isValidMove(rc[1], rc[2], currentPlayer, board,
                                                      configs[currentStage])]
  /\ UNCHANGED <<stageSelect, blackAI, whiteAI, startTimers, inflight, hostBlocked,
                 userEvents, opsUsed>>
  /\ UNCHANGED regVars

\* the move results and durations of the strategies in SpecUI
UIResults ==
  { [kind |-> "move", row |-> 1, col |-> 0], [kind |-> "null", row |-> -1, col |-> -1] }

NullResult == [kind |-> "null", row |-> -1, col |-> -1]

\* games started with the Start button, on a stage chosen between games, and
\* played by the scheduler, the human and asynchronous strategies that may
\* use their arguments before they answer, which they do in no time
Next ==
  \/ StartGameClick
  \/ StartTimerFires
  \/ \E j \in StageIds : ~gameRunning /\ StageChange(j)
  \/ PlyTimerFires("async", NullResult)
  \/ \E i \in 1 .. MaxInFlight, rc \in OpCells, p \in Players :
       StrategyCallsMakeMove(i, rc, p)
  \/ \E i \in 1 .. MaxInFlight, edit \in {"clear", "push"}, rc \in PushCells :
       StrategyEditsMoves(i, edit, rc)
  \/ \E i \in 1 .. MaxInFlight : StrategyWritesBoard(i, 1)
  \/ \E i \in 1 .. MaxInFlight, res \in Results : StrategyReturns(i, res, 0)
  \/ \E onCell \in BOOLEAN, rc \in ClickCells : HumanClick(onCell, rc)

Spec == Init /\ [][Next]_vars

\* games with strategies, synchronous ones too, that take their time or let
\* the deadline pass, and leave their arguments alone
NextTimed ==
  \/ (userEvents < MaxTimedEvents /\ StartGameClick)
  \/ StartTimerFires
  \/ \E j \in StageIds : userEvents < MaxTimedEvents /\ ~gameRunning /\ StageChange(j)
  \/ \E mode \in {"async", "late", "hang"}, res \in Results : PlyTimerFires(mode, res)
  \/ \E i \in 1 .. MaxInFlight, res \in Results, elapsed \in MoveTimes :
       StrategyReturns(i, res, elapsed)
  \/ \E i \in 1 .. MaxInFlight, lag \in 0 .. MaxTimerLag : DeadlineFires(i, lag)
  \/ \E onCell \in BOOLEAN, rc \in ClickCells : HumanClick(onCell, rc)

SpecTimed == Init /\ [][NextTimed]_vars

\* the buttons and the stage drop-down used at any moment of a game whose
\* strategies answer at once with a legal move or with null
NextUI ==
  \/ StartGameClick
  \/ StartTimerFires
  \/ ResetClick
  \/ \E j \in StageIds : StageChange(j)
  \/ PlyTimerFires("async", NullResult)
  \/ \E i \in 1 .. MaxInFlight, res \in UIResults : StrategyReturns(i, res, 0)
  \/ \E i \in 1 .. MaxInFlight, lag \in 0 .. MaxTimerLag : DeadlineFires(i, lag)
  \/ \E rc \in ClickCells : HumanClick(TRUE, rc)

SpecUI == Init /\ [][NextUI]_vars

\* ----------------------------------------------------- the engine by itself
\* OthelloCore used through its public functions, on the board of any stage
\* configuration initializeBoard was given
InitEngine ==
  /\ currentStage \in 1 .. Len(configs)
  /\ board = createInitialBoard(configs[currentStage])
  /\ currentPlayer = BLACK
  /\ gameRunning = FALSE
  /\ gameOver = FALSE
  /\ blackTimeUsed = 0
  /\ whiteTimeUsed = 0
  /\ gameLoopTimeout = NoTimer
  /\ isTournamentMode = FALSE
  /\ aiThinking = FALSE
  /\ startButtonDisabled = FALSE
  /\ stageSelect = 1
  /\ blackAI = "human"
  /\ whiteAI = "human"
  /\ startTimers = 0
  /\ inflight = << >>
  /\ hostBlocked = FALSE
  /\ moveCount = 0
  /\ userEvents = 0
  /\ opsUsed = 0
  /\ RegInit
  /\ ev = EvBase

\* coordinates makeMove is called with besides the legal moves: outside the
\* board, an empty corner, a cell the stages fill at the start, and the empty
\* cell at the head of row Mid
IllegalCells == { <<-1, 0>>, <<0, 0>>, <<Mid, 2>>, <<Mid, 0>> }

\* every coordinate of the widest board
AllCells == (0 .. 7) \X (0 .. 7)

\* makeMove(row, col, currentPlayer) followed by
\* setCurrentPlayer(determineNextPlayer()), as the scheduler and the human
\* handler do for a move
CorePly(rc) ==
  /\ moveCount < MaxCorePly
  /\ LET stageConfig == configs[currentStage]
         wasValid == isValidMove(rc[1], rc[2], currentPlayer, board, stageConfig)
         mm == makeMove(rc[1], rc[2], currentPlayer, board, stageConfig)
     IN /\ wasValid \/ rc \in IllegalCells
        /\ board' = mm.board
        /\ currentPlayer' = determineNextPlayer(mm.board, currentPlayer, stageConfig)
        /\ moveCount' = moveCount + (IF mm.placed THEN 1 ELSE 0)
        /\ ev' = [EvBase EXCEPT !.kind = "corePly", !.player = currentPlayer,
                                !.resRow = rc[1], !.resCol = rc[2],
                                !.wasValid = wasValid, !.ret = mm.ret,
                                !.placed = mm.placed,
                                !.boardChanged = (mm.board # board),
                                !.before = board]
  /\ UNCHANGED <<currentStage, gameRunning, gameOver, ctlVars, uiVars, startTimers,
                 inflight, hostBlocked, userEvents, opsUsed>>
  /\ UNCHANGED regVars

\* getValidMoves(player) on the live board
CoreGetValidMoves(player) ==
  /\ ev' = [EvBase EXCEPT !.kind = "getValidMoves", !.player = player,
                          !.moves = getValidMoves(player, board, configs[currentStage])]
  /\ UNCHANGED <<coreVars, ctlVars, uiVars, envVars>>
  /\ UNCHANGED regVars

NextEngine ==
  \/ \E rc \in AllCells \cup IllegalCells : CorePly(rc)
  \/ \E player \in Players : CoreGetValidMoves(player)

SpecEngine == InitEngine /\ [][NextEngine]_vars

\* ------------------------------------------------------- the ends of games
\* the position a game is in after the legal moves of a list were played from
\* the start, by makeMove and determineNextPlayer, a player without a move
\* passing; black and white count the discs each player placed. The replay
\* stops at the first move of the list that is not legal
RECURSIVE PlayFrom(_, _, _, _, _, _, _)
PlayFrom(b, cur, stageConfig, moves, i, black, white) ==
  LET here == [board |-> b, currentPlayer |-> cur, black |-> black, white |-> white]
  IN IF i > Len(moves) THEN here
     ELSE IF Len(getValidMoves(cur, b, stageConfig)) = 0
     THEN IF Len(getValidMoves(Opponent(cur), b, stageConfig)) = 0 THEN here
          ELSE PlayFrom(b, Opponent(cur), stageConfig, moves, i, black, white)
     ELSE IF ~isValidMove(moves[i][1], moves[i][2], cur, b, stageConfig) THEN here
     ELSE LET mm == makeMove(moves[i][1], moves[i][2], cur, b, stageConfig)
          IN PlayFrom(mm.board, determineNextPlayer(mm.board, cur, stageConfig),
                      stageConfig, moves, i + 1,
                      black + (IF cur = BLACK THEN 1 ELSE 0),
                      white + (IF cur = WHITE THEN 1 ELSE 0))

\* games close to their end, as the stage and the moves played so far: one
\* move away from a pass, from a win of Black on discs, from a tie (twice),
\* from a win of White on discs, and the opening of the stage on which the
\* player with fewer discs moves again
Endgames ==
  << [ stage |-> 1, moves |-> << <<0, 1>>, <<0, 2>>, <<2, 3>> >> ],
     [ stage |-> 1, moves |-> << <<0, 1>>, <<0, 2>>, <<0, 3>>, <<2, 0>>, <<3, 2>>,
                                 <<2, 3>>, <<3, 0>>, <<4, 0>> >> ],
     [ stage |-> 1, moves |-> << <<1, 0>>, <<0, 0>>, <<3, 2>>, <<2, 0>>, <<0, 1>>,
                                 <<2, 3>>, <<3, 4>>, <<4, 3>>, <<4, 1>>, <<0, 2>>,
                                 <<4, 2>>, <<4, 4>>, <<2, 4>> >> ],
     [ stage |-> 2, moves |-> << <<1, 0>>, <<0, 2>>, <<3, 3>>, <<3, 2>>, <<2, 3>>,
                                 <<3, 4>>, <<4, 2>>, <<0, 0>>, <<2, 4>>, <<2, 0>>,
                                 <<4, 4>> >> ],
     [ stage |-> 2, moves |-> << <<1, 0>>, <<0, 0>>, <<2, 3>>, <<2, 0>>, <<2, 4>>,
                                 <<3, 4>>, <<0, 2>> >> ],
     [ stage |-> 5, moves |-> << >> ] >>

EndgameAt(g) ==
  PlayFrom(createInitialBoard(configs[Endgames[g].stage]), BLACK,
           configs[Endgames[g].stage], Endgames[g].moves, 1, 0, 0)

\* the time a controller has used after placing so many discs: the fallback
\* of a strategy that is gone charges each of them, the human is not timed,
\* and the strategy that compiles answered at once
TimeSpent(controllerId, placed) ==
  IF controllerId = "custom_gone" THEN randomStrategyTime * placed ELSE 0

\* a running game at one of these positions, waiting for the player to move:
\* for the click of a human, or for the ply callback of a strategy
InitEndgame ==
  \E g \in 1 .. Len(Endgames) :
    LET at == EndgameAt(g)
        stageConfig == configs[Endgames[g].stage]
        validMoves == getValidMoves(at.currentPlayer, at.board, stageConfig)
    IN /\ Len(validMoves) > 0
       /\ blackAI \in ControllerIds
       /\ whiteAI \in ControllerIds
       /\ (IF at.currentPlayer = BLACK THEN blackAI ELSE whiteAI) # "custom_gone"
       /\ currentStage = Endgames[g].stage
       /\ board = at.board
       /\ currentPlayer = at.currentPlayer
       /\ gameRunning = TRUE
       /\ gameOver = FALSE
       /\ blackTimeUsed = TimeSpent(blackAI, at.black)
       /\ whiteTimeUsed = TimeSpent(whiteAI, at.white)
       /\ gameLoopTimeout =
            IF getCompiledStrategy(IF at.currentPlayer = BLACK THEN blackAI ELSE whiteAI)
            THEN [set |-> TRUE, player |-> at.currentPlayer, validMoves |-> validMoves,
                  isTournament |-> FALSE, after |-> 0]
            ELSE NoTimer
       /\ isTournamentMode = FALSE
       /\ aiThinking = getCompiledStrategy(IF at.currentPlayer = BLACK THEN blackAI
                                           ELSE whiteAI)
       /\ startButtonDisabled = TRUE
       /\ stageSelect = 1
       /\ startTimers = 0
       /\ inflight = << >>
       /\ hostBlocked = FALSE
       /\ moveCount = 0
       /\ userEvents = 0
       /\ opsUsed = 0
       /\ RegInit
       /\ ev = EvBase

\* the cells the strategies answer with and the human clicks at these
\* positions: the move that leaves the opponent without one, the three that
\* end the game, the opening move of the fewer-pieces stage; each of them is
\* not a legal move at the other positions
EndCells == { <<0, 0>>, <<2, 4>>, <<1, 4>>, <<3, 0>>, <<2, 3>> }

EndResults ==
  { [kind |-> "move", row |-> rc[1], col |-> rc[2]] : rc \in EndCells }
  \cup { NullResult }

\* the last plies of a game: strategies that answer at once, block until the
\* deadline is over or let the deadline timer fire, and the human
NextEndgame ==
  \/ PlyTimerFires("async", NullResult)
  \/ PlyTimerFires("late", NullResult)
  \/ \E i \in 1 .. MaxInFlight, res \in EndResults : StrategyReturns(i, res, 0)
  \/ \E i \in 1 .. MaxInFlight, lag \in 0 .. MaxTimerLag : DeadlineFires(i, lag)
  \/ \E onCell \in BOOLEAN, rc \in EndCells : HumanClick(onCell, rc)

SpecEndgame == InitEndgame /\ [][NextEndgame]_vars

\* ------------------------------------------------------ OthelloStrategies
\* JavaScript values the registry holds, each a record with its kind
Undefined == [kind |-> "undefined"]
Null == [kind |-> "null"]
\* a function every object inherits from Object.prototype
Native(key) == [kind |-> "native", key |-> key]

\* the keys every object literal inherits (one of them stands for all)
ObjectPrototypeKeys == { "constructor" }

\* obj[key]: the own property, else the inherited one, else undefined
Get(obj, key) ==
  IF key \in DOMAIN obj THEN obj[key]
  ELSE IF key \in ObjectPrototypeKeys THEN Native(key)
  ELSE Undefined

\* obj[key] = v and delete obj[key]
Set(obj, key, v) ==
  [ k \in (DOMAIN obj) \cup {key} |-> IF k = key THEN v ELSE obj[k] ]

Delete(obj, key) == [ k \in (DOMAIN obj) \ {key} |-> obj[k] ]

\* source texts, by what the program asks of a text: whether it is empty,
\* which of the substrings it looks for are in it, whether new Function
\* accepts it, which entry points evaluating it defines, and, for an
\* analyzeStage it defines, what a call of it does and how long that takes
Text(empty, studentStrategy, functionParen, analyzeStage, analyzeDecl, syntaxOk, definesStudent, definesAnalyze, outcome, duration) ==
  [ empty |-> empty, studentStrategy |-> studentStrategy,
    functionParen |-> functionParen, analyzeStage |-> analyzeStage,
    analyzeDecl |-> analyzeDecl, syntaxOk |-> syntaxOk,
    definesStudent |-> definesStudent, definesAnalyze |-> definesAnalyze,
    outcome |-> outcome, duration |-> duration ]

\* the default analysis timeout the upload page announces
analysisTimeout == 60000

Texts ==
  [ \* let calls = 0; function studentStrategy(b, p, v, m) { calls++; ... }
    counting |-> Text(FALSE, TRUE, FALSE, FALSE, FALSE, TRUE, TRUE, FALSE, "none", 0),
    \* const pick = function(b, p, v) { return v[0]; };
    noEntry |-> Text(FALSE, FALSE, TRUE, FALSE, FALSE, TRUE, FALSE, FALSE, "none", 0),
    \* function studentStrategy(b, p, v { return v[0]; }
    broken |-> Text(FALSE, TRUE, FALSE, FALSE, FALSE, FALSE, FALSE, FALSE, "none", 0),
    \* const pick = (b, p, v) => v[0];
    plain |-> Text(FALSE, FALSE, FALSE, FALSE, FALSE, TRUE, FALSE, FALSE, "none", 0),
    \* the empty text
    empty |-> Text(TRUE, FALSE, FALSE, FALSE, FALSE, TRUE, FALSE, FALSE, "none", 0),
    \* the wrapper analyzeStageWithSystem generates
    wrapper |-> Text(FALSE, TRUE, FALSE, FALSE, FALSE, TRUE, TRUE, FALSE, "none", 0),
    \* function analyzeStage(...) { let n = 0; return function (b, p, v) { n++; ... }; }
    sysFunction |-> Text(FALSE, FALSE, FALSE, TRUE, TRUE, TRUE, FALSE, TRUE, "function", 0),
    \* function analyzeStage(...) { return { depth: 3 }; }
    sysValue |-> Text(FALSE, FALSE, FALSE, TRUE, TRUE, TRUE, FALSE, TRUE, "value", 0),
    \* function analyzeStage(...) { throw new Error("no"); }
    sysThrows |-> Text(FALSE, FALSE, FALSE, TRUE, TRUE, TRUE, FALSE, TRUE, "throws", 0),
    \* function analyzeStage(...) { while (true) {} }
    sysHangs |-> Text(FALSE, FALSE, FALSE, TRUE, TRUE, TRUE, FALSE, TRUE, "hangs", 0),
    \* an analyzeStage that returns its strategy after more than the timeout
    sysSlow |-> Text(FALSE, FALSE, FALSE, TRUE, TRUE, TRUE, FALSE, TRUE, "function",
                     analysisTimeout + 1),
    \* function analyzeStage(... { : not accepted by new Function
    sysBroken |-> Text(FALSE, FALSE, FALSE, TRUE, TRUE, FALSE, FALSE, FALSE, "none", 0),
    \* var analyzeStage = 5;
    sysNotAFunction |-> Text(FALSE, FALSE, FALSE, TRUE, TRUE, TRUE, FALSE, FALSE, "none", 0),
    \* function analyse(...) { ... }: no analyzeStage in it
    sysNoEntry |-> Text(FALSE, FALSE, FALSE, FALSE, FALSE, TRUE, FALSE, FALSE, "none", 0),
    \* function analyzeStage(...) {...} and function studentStrategy(...) {...}
    sysBoth |-> Text(FALSE, TRUE, FALSE, TRUE, TRUE, TRUE, TRUE, TRUE, "function", 0) ]

\* a source text as a value; target names the generated strategy the wrapper
\* text refers to
Source(id) == [kind |-> "source", id |-> id, target |-> ""]

WrapperSource(generatedStrategyName) ==
  [kind |-> "source", id |-> "wrapper", target |-> generatedStrategyName]

\* code.includes(what), for the substrings the program looks for
Includes(code, what) == Texts[code.id][what]

\* the truth value JavaScript gives a value in a condition
Truthy(v) ==
  /\ v.kind \notin {"undefined", "null"}
  /\ v.kind = "source" => ~Texts[v.id].empty

\* new Function(..., `${code}\nreturn studentStrategy(...)`) succeeds: the
\* text is one the parser accepts (the text of a native function is not)
NewFunctionAccepts(code) == code.kind = "source" /\ Texts[code.id].syntaxOk

\* the callable new Function makes of a text; fn is its identity
Compiled(fn, code) == [kind |-> "compiled", fn |-> fn, code |-> code]

\* the built-in strategies, an object literal too
builtInStrategies == [ id \in BuiltInIds |-> [kind |-> "builtin", id |-> id] ]

\* controller ids: 'custom_' + name, or the id of a built-in
Custom(name) == [custom |-> TRUE, name |-> name]

Plain(id) == [custom |-> FALSE, name |-> id]

\* the registry a function of OthelloStrategies works on
R ==
  [ saved |-> savedStrategies, cache |-> compiledStudentAIs,
    systems |-> compiledIntelligentSystems, uploads |-> intelligentSystems,
    storage |-> localStorage, console |-> console, compiles |-> compiles,
    scopes |-> scopes ]

CommitR(r) ==
  /\ savedStrategies' = r.saved
  /\ compiledStudentAIs' = r.cache
  /\ compiledIntelligentSystems' = r.systems
  /\ intelligentSystems' = r.uploads
  /\ localStorage' = r.storage
  /\ console' = r.console
  /\ compiles' = r.compiles
  /\ scopes' = r.scopes

\* getCompiledStrategy looking among the saved strategies for every id
compileStrategy_SavedShadowsBuiltIn(r, controllerId) ==
  IF controllerId.custom \/ controllerId.name \in DOMAIN r.saved
  THEN LET strategyName == controllerId.name
           cached == Get(r.cache, strategyName)
           code == Get(r.saved, strategyName)
       IN IF Truthy(cached)
          THEN [ret |-> cached, compiled |-> FALSE, r |-> r]
          ELSE IF Truthy(code)
          THEN IF NewFunctionAccepts(code)
               THEN LET compiledFunc == Compiled(r.compiles + 1, code)
                    IN [ret |-> compiledFunc, compiled |-> TRUE,
                        r |-> [r EXCEPT !.cache = Set(@, strategyName, compiledFunc),
                                        !.compiles = @ + 1]]
               ELSE [ret |-> Null, compiled |-> FALSE, r |-> r]
          ELSE [ret |-> Null, compiled |-> FALSE, r |-> r]
  ELSE IF Truthy(Get(builtInStrategies, controllerId.name))
  THEN [ret |-> Get(builtInStrategies, controllerId.name), compiled |-> FALSE, r |-> r]
  ELSE [ret |-> Null, compiled |-> FALSE, r |-> r]

\* getCompiledStrategy of the registry (the scheduler above only asks whether
\* its result is null): the callable it returns, whether it made it in this
\* call, and the registry after the call
compileStrategy(r, controllerId) ==
  IF controllerId.custom
  THEN LET strategyName == controllerId.name
           cached == Get(r.cache, strategyName)
           code == Get(r.saved, strategyName)
       IN IF Truthy(cached)
          THEN [ret |-> cached, compiled |-> FALSE, r |-> r]
          ELSE IF Truthy(code)
          THEN IF NewFunctionAccepts(code)
               THEN LET compiledFunc == Compiled(r.compiles + 1, code)
                    IN [ret |-> compiledFunc, compiled |-> TRUE,
                        r |-> [r EXCEPT !.cache = Set(@, strategyName, compiledFunc),
                                        !.compiles = @ + 1]]
               ELSE [ret |-> Null, compiled |-> FALSE, r |-> r]
          ELSE [ret |-> Null, compiled |-> FALSE, r |-> r]
  ELSE IF Truthy(Get(builtInStrategies, controllerId.name))
  THEN [ret |-> Get(builtInStrategies, controllerId.name), compiled |-> FALSE, r |-> r]
  ELSE [ret |-> Null, compiled |-> FALSE, r |-> r]

saveStrategy(r, name, code) ==
  IF ~Truthy(code) THEN [ret |-> FALSE, r |-> r]
  ELSE LET saved == Set(r.saved, name, code)
       IN [ret |-> TRUE,
           r |-> [r EXCEPT !.saved = saved, !.cache = Set(@, name, Null),
                           !.storage = saved]]

deleteStrategy(r, name) ==
  IF ~Truthy(Get(r.saved, name)) THEN [ret |-> FALSE, r |-> r]
  ELSE LET saved == Delete(r.saved, name)
       IN [ret |-> TRUE,
           r |-> [r EXCEPT !.saved = saved, !.cache = Delete(@, name),
                           !.storage = saved]]

\* JSON.parse of what JSON.stringify stored: the own properties
loadSavedStrategies(r) ==
  [r EXCEPT !.saved = r.storage, !.cache = EmptyObject]

getStrategyNames(r) == DOMAIN r.saved

\* importStrategiesFromFiles for one file: reader.onload, or reader.onerror
\* when the file cannot be read
importStrategiesFromFiles(r, file) ==
  IF ~file.readable THEN [success |-> 0, errors |-> 1, r |-> r]
  ELSE LET code == file.code
           name == file.name
           rejected ==
             \/ ~Truthy(code)
             \/ ~Includes(code, "studentStrategy") /\ ~Includes(code, "functionParen")
             \/ Includes(code, "analyzeStage")
       IN IF rejected
          THEN [success |-> 0, errors |-> 1, r |-> [r EXCEPT !.storage = r.saved]]
          ELSE LET saved == Set(r.saved, name, code)
               IN [success |-> 1, errors |-> 0,
                   r |-> [r EXCEPT !.saved = saved, !.cache = Set(@, name, Null),
                                   !.storage = saved]]

\* ------------------------------------------- IntelligentSystemInterface
\* what a strategy hands back to the scheduler
Move(cell) == [kind |-> "move", cell |-> cell]
Threw == [kind |-> "threw"]

\* validMoves[i] with i counted from 0; undefined past the end
Element(validMoves, i) ==
  IF i < Len(validMoves) THEN Move(validMoves[i + 1]) ELSE Undefined

\* validMoves && validMoves.length > 0 ? validMoves[0] : null
FirstOrNull(validMoves) ==
  IF Len(validMoves) > 0 THEN Move(validMoves[1]) ELSE Null

\* Math.round in place of Math.floor
RandomIndex_Rounds(n) == 0 .. n

\* the values Math.floor(Math.random() * n) can take
RandomIndex(n) == 0 .. (n - 1)

\* the function analyzeStage returned, and the host's replacement when it
\* returned something else
Closure(fn) == [kind |-> "closure", fn |-> fn]
FallbackStrategy(fn) == [kind |-> "fallback", fn |-> fn]

\* stageConfig.name.replace(/\s+/g, '_') on the names of the stages
Underscored(name) == IF name = "Standard 8x8" THEN "Standard_8x8" ELSE name

GeneratedStrategyName(systemName, stageConfig) ==
  "intelligent_" \o systemName \o "_" \o Underscored(stageConfig.name)

\* compileSystem: the analyzeStage the text defines, null when the text does
\* not parse or defines none
compileSystem(code) ==
  IF Texts[code.id].syntaxOk /\ Texts[code.id].definesAnalyze
  THEN [kind |-> "analyzeStage", code |-> code]
  ELSE Null

\* analyzeStageWithSystem registering its fallback although analyzeStage threw
analyzeStageWithSystem_RegistersOnThrow(r, systemName, stageConfig, systemCode) ==
  LET originalConsole == r.console
      \* catch: return false; finally: put the console back if it differs
      failure(at) ==
        [ret |-> FALSE, hangs |-> FALSE, duration |-> 0,
         r |-> IF at.console # originalConsole
               THEN [at EXCEPT !.console = originalConsole] ELSE at]
  IN IF ~Truthy(systemCode) \/ ~Includes(systemCode, "analyzeDecl")
     THEN failure(r)
     ELSE LET analyzeStageFunc == compileSystem(systemCode)
          IN IF ~Truthy(analyzeStageFunc)
             THEN failure(r)
             ELSE LET wrapped == [r EXCEPT !.console = "wrapped"]
                      outcome == Texts[systemCode.id].outcome
                      \* the finally of the call of analyzeStage
                      restored == [wrapped EXCEPT !.console = originalConsole]
                      fn == r.compiles + 1
                      strategyFunction ==
                        IF outcome = "function" THEN Closure(fn) ELSE FallbackStrategy(fn)
                      generatedStrategyName ==
                        GeneratedStrategyName(systemName, stageConfig)
                      registered ==
                        [restored EXCEPT
                           !.systems = Set(@, generatedStrategyName, strategyFunction),
                           !.compiles = fn,
                           !.scopes = Set(@, fn, 0)]
                      saved ==
                        saveStrategy(registered, generatedStrategyName,
                                     WrapperSource(generatedStrategyName)).r
                  IN IF outcome = "hangs"
                     THEN [ret |-> FALSE, hangs |-> TRUE, duration |-> 0, r |-> wrapped]
                     ELSE IF outcome = "throws"
                     THEN failure(saved)
                     ELSE [ret |-> TRUE, hangs |-> FALSE,
                           duration |-> Texts[systemCode.id].duration,
                           r |-> IF saved.console # originalConsole
                                 THEN [saved EXCEPT !.console = originalConsole]
                                 ELSE saved]

\* analyzeStageWithSystem putting the console back after the call of
\* analyzeStage, outside any finally
analyzeStageWithSystem_RestoresOnlyOnReturn(r, systemName, stageConfig, systemCode) ==
  LET originalConsole == r.console
      \* catch: return false; finally: put the console back if it differs
      failure(at) ==
        [ret |-> FALSE, hangs |-> FALSE, duration |-> 0,
         r |-> IF at.console # originalConsole
               THEN [at EXCEPT !.console = originalConsole] ELSE at]
  IN IF ~Truthy(systemCode) \/ ~Includes(systemCode, "analyzeDecl")
     THEN failure(r)
     ELSE LET analyzeStageFunc == compileSystem(systemCode)
          IN IF ~Truthy(analyzeStageFunc)
             THEN failure(r)
             ELSE LET wrapped == [r EXCEPT !.console = "wrapped"]
                      outcome == Texts[systemCode.id].outcome
                      \* the finally of the call of analyzeStage
                      restored == [wrapped EXCEPT !.console = originalConsole]
                      fn == r.compiles + 1
                      strategyFunction ==
                        IF outcome = "function" THEN Closure(fn) ELSE FallbackStrategy(fn)
                      generatedStrategyName ==
                        GeneratedStrategyName(systemName, stageConfig)
                      registered ==
                        [restored EXCEPT
                           !.systems = Set(@, generatedStrategyName, strategyFunction),
                           !.compiles = fn,
                           !.scopes = Set(@, fn, 0)]
                      saved ==
                        saveStrategy(registered, generatedStrategyName,
                                     WrapperSource(generatedStrategyName)).r
                  IN IF outcome = "hangs"
                     THEN [ret |-> FALSE, hangs |-> TRUE, duration |-> 0, r |-> wrapped]
                     ELSE IF outcome = "throws"
                     THEN [ret |-> FALSE, hangs |-> FALSE, duration |-> 0, r |-> wrapped]
                     ELSE [ret |-> TRUE, hangs |-> FALSE,
                           duration |-> Texts[systemCode.id].duration,
                           r |-> IF saved.console # originalConsole
                                 THEN [saved EXCEPT !.console = originalConsole]
                                 ELSE saved]

\* analyzeStageWithSystem. hangs: the call of analyzeStage never returned, r
\* is then the registry the host is left with. duration: the time the call of
\* analyzeStage took.
analyzeStageWithSystem(r, systemName, stageConfig, systemCode) ==
  LET originalConsole == r.console
      \* catch: return false; finally: put the console back if it differs
      failure(at) ==
        [ret |-> FALSE, hangs |-> FALSE, duration |-> 0,
         r |-> IF at.console # originalConsole
               THEN [at EXCEPT !.console = originalConsole] ELSE at]
  IN IF ~Truthy(systemCode) \/ ~Includes(systemCode, "analyzeDecl")
     THEN failure(r)
     ELSE LET analyzeStageFunc == compileSystem(systemCode)
          IN IF ~Truthy(analyzeStageFunc)
             THEN failure(r)
             ELSE LET wrapped == [r EXCEPT !.console = "wrapped"]
                      outcome == Texts[systemCode.id].outcome
                      \* the finally of the call of analyzeStage
                      restored == [wrapped EXCEPT !.console = originalConsole]
                      fn == r.compiles + 1
                      strategyFunction ==
                        IF outcome = "function" THEN Closure(fn) ELSE FallbackStrategy(fn)
                      generatedStrategyName ==
                        GeneratedStrategyName(systemName, stageConfig)
                      registered ==
                        [restored EXCEPT
                           !.systems = Set(@, generatedStrategyName, strategyFunction),
                           !.compiles = fn,
                           !.scopes = Set(@, fn, 0)]
                      saved ==
                        saveStrategy(registered, generatedStrategyName,
                                     WrapperSource(generatedStrategyName)).r
                  IN IF outcome = "hangs"
                     THEN [ret |-> FALSE, hangs |-> TRUE, duration |-> 0, r |-> wrapped]
                     ELSE IF outcome = "throws"
                     THEN failure(restored)
                     ELSE [ret |-> TRUE, hangs |-> FALSE,
                           duration |-> Texts[systemCode.id].duration,
                           r |-> IF saved.console # originalConsole
                                 THEN [saved EXCEPT !.console = originalConsole]
                                 ELSE saved]

\* uploadIntelligentSystem, reader.onload: the status line it ends with
uploadIntelligentSystem(r, file, stageConfig) ==
  LET code == file.code
      systemName == file.name
  IN IF ~Includes(code, "analyzeDecl")
     THEN [status |-> "error", analysed |-> FALSE, hangs |-> FALSE, duration |-> 0,
           r |-> r]
     ELSE LET stored == [r EXCEPT !.uploads = Set(@, systemName, code)]
              t == analyzeStageWithSystem(stored, systemName, stageConfig, code)
          IN [status |-> IF t.hangs THEN "analysing"
                         ELSE IF t.ret THEN "complete" ELSE "failed or timed out",
              analysed |-> TRUE, hangs |-> t.hangs, duration |-> t.duration,
              r |-> t.r]

\* ------------------------------------------------ a strategy is called
\* the variables a text declares outside studentStrategy, as a call of the
\* compiled callable finds them: the callable is new Function of the whole
\* text, so every call runs the declarations again
OuterAtCall(r, f) == 0

\* the variables a function returned by analyzeStage closed over
ClosedOver(r, f) == Get(r.scopes, f.fn)

\* strategy(board, player, validMoves, makeMove) for a callable the registry
\* handed out: the results it can have; seen is the number of calls the
\* callable has counted, this one included
RECURSIVE Call(_, _, _)
Call(r, f, validMoves) ==
  CASE f.kind = "compiled" ->
         IF ~Texts[f.code.id].definesStudent
         THEN { [move |-> Threw, seen |-> 0, r |-> r] }
         ELSE IF f.code.id = "wrapper"
         THEN LET strategy == Get(r.systems, f.code.target)
              IN IF ~Truthy(strategy)
                 THEN { [move |-> FirstOrNull(validMoves), seen |-> 0, r |-> r] }
                 ELSE { IF t.move = Threw
                        THEN [t EXCEPT !.move = FirstOrNull(validMoves)] ELSE t
                        : t \in Call(r, strategy, validMoves) }
         ELSE LET calls == OuterAtCall(r, f) + 1
              IN { [move |-> Element(validMoves, 0), seen |-> calls,
                    r |-> [r EXCEPT !.scopes = Set(@, f.fn, calls)]] }
    [] f.kind = "closure" ->
         LET n == ClosedOver(r, f) + 1
         IN { [move |-> Element(validMoves, 0), seen |-> n,
               r |-> [r EXCEPT !.scopes = Set(@, f.fn, n)]] }
    [] f.kind = "fallback" ->
         IF Len(validMoves) = 0
         THEN { [move |-> Null, seen |-> 0, r |-> r] }
         ELSE { [move |-> Element(validMoves, i), seen |-> 0, r |-> r]
                : i \in RandomIndex(Len(validMoves)) }
    [] f.kind = "native" ->
         \* Object(board) is board itself
         { [move |-> [kind |-> "board"], seen |-> 0, r |-> r] }
    [] OTHER -> { [move |-> Threw, seen |-> 0, r |-> r] }

\* ------------------------------------------ the registry, step by step
\* what the last step of the registry did (history). live: for each custom
\* name, the callable getCompiledStrategy made for it since the name was last
\* saved, imported, deleted or reloaded
RegEvBase ==
  [ kind |-> "none", name |-> "", custom |-> FALSE, code |-> Undefined,
    ret |-> Undefined, compiled |-> FALSE, ok |-> FALSE, status |-> "",
    move |-> Undefined, moves |-> << >>, seen |-> 0, duration |-> 0,
    live |-> EmptyObject ]

RegHist(kind, name) == [RegEvBase EXCEPT !.kind = kind, !.name = name, !.live = ev.live]

\* names users give their strategies: the name of a built-in, and a name
\* every object inherits a property for
StrategyNames == { "random", "constructor" }

SystemName == "sys"

\* the stage the drop-down shows when a system is uploaded
UploadStages == { 1, Len(configs) }

GeneratedNames == { GeneratedStrategyName(SystemName, configs[i]) : i \in UploadStages }

SaveCodes == { Source(id) : id \in { "counting", "noEntry", "broken", "empty" } }

ImportFiles ==
  { [name |-> "constructor", code |-> Source(id), readable |-> TRUE]
    : id \in { "counting", "noEntry", "plain", "sysBoth" } }
  \cup { [name |-> "random", code |-> Source("counting"), readable |-> FALSE] }

SystemFiles ==
  { [name |-> SystemName, code |-> Source(id)]
    : id \in { "sysFunction", "sysValue", "sysThrows", "sysHangs", "sysSlow",
               "sysBroken", "sysNotAFunction", "sysNoEntry", "sysBoth" } }

AnalyzeCodes == { Source("empty"), Source("sysNoEntry") }

ResolveIds ==
  { Custom(n) : n \in StrategyNames \cup GeneratedNames }
  \cup { Plain(id) : id \in BuiltInIds \cup { "minimax" } }

TurnMoves == { << <<2, 3>>, <<3, 2>> >> }

RegistryIdle == ~hostBlocked /\ registryOps < MaxRegistryOps

RegStep(r) ==
  /\ CommitR(r)
  /\ registryOps' = registryOps + 1
  /\ UNCHANGED <<coreVars, ctlVars, uiVars, startTimers, inflight, moveCount,
                 userEvents, opsUsed, otherItems, tournament>>

SaveStrategy(name, code) ==
  /\ RegistryIdle
  /\ LET t == saveStrategy(R, name, code)
     IN /\ RegStep(t.r)
        /\ ev' = [RegHist("save", name) EXCEPT
                    !.ok = t.ret, !.code = code,
                    !.live = IF t.ret THEN Delete(@, name) ELSE @]
  /\ UNCHANGED hostBlocked

DeleteStrategy(name) ==
  /\ RegistryIdle
  /\ LET t == deleteStrategy(R, name)
     IN /\ RegStep(t.r)
        /\ ev' = [RegHist("delete", name) EXCEPT
                    !.ok = t.ret, !.live = IF t.ret THEN Delete(@, name) ELSE @]
  /\ UNCHANGED hostBlocked

ImportStrategies(file) ==
  /\ RegistryIdle
  /\ LET t == importStrategiesFromFiles(R, file)
     IN /\ RegStep(t.r)
        /\ ev' = [RegHist("import", file.name) EXCEPT
                    !.ok = t.success = 1, !.code = file.code,
                    !.live = IF t.success = 1 THEN Delete(@, file.name) ELSE @]
  /\ UNCHANGED hostBlocked

LoadSavedStrategies ==
  /\ RegistryIdle
  /\ RegStep(loadSavedStrategies(R))
  /\ ev' = [RegHist("load", "") EXCEPT !.live = EmptyObject]
  /\ UNCHANGED hostBlocked

\* the page is loaded again: the objects of the window start empty and
\* initializeApp calls loadSavedStrategies
PageLoad ==
  /\ RegistryIdle
  /\ RegStep(loadSavedStrategies(
       [R EXCEPT !.saved = EmptyObject, !.cache = EmptyObject,
                 !.systems = EmptyObject, !.uploads = EmptyObject,
                 !.scopes = EmptyObject, !.console = "original"]))
  /\ ev' = [RegHist("pageLoad", "") EXCEPT !.live = EmptyObject]
  /\ UNCHANGED hostBlocked

GetCompiledStrategy(controllerId) ==
  /\ RegistryIdle
  /\ LET t == compileStrategy(R, controllerId)
     IN /\ RegStep(t.r)
        /\ ev' = [RegHist("resolve", controllerId.name) EXCEPT
                    !.custom = controllerId.custom, !.ret = t.ret,
                    !.compiled = t.compiled,
                    !.live = IF t.compiled THEN Set(@, controllerId.name, t.ret) ELSE @]
  /\ UNCHANGED hostBlocked

\* one turn of a custom controller: the scheduler asks for the strategy and,
\* given one, calls it
Turn(name, validMoves) ==
  /\ RegistryIdle
  /\ LET t == compileStrategy(R, Custom(name))
     IN /\ Truthy(t.ret)
        /\ \E c \in Call(t.r, t.ret, validMoves) :
             /\ RegStep(c.r)
             /\ ev' = [RegHist("turn", name) EXCEPT
                         !.custom = TRUE, !.ret = t.ret, !.compiled = t.compiled,
                         !.move = c.move, !.moves = validMoves, !.seen = c.seen,
                         !.live = IF t.compiled THEN Set(@, name, t.ret) ELSE @]
  /\ UNCHANGED hostBlocked

UploadIntelligentSystem(file) ==
  /\ RegistryIdle
  /\ LET t == uploadIntelligentSystem(R, file, configs[stageSelect])
         name == GeneratedStrategyName(file.name, configs[stageSelect])
     IN /\ RegStep(t.r)
        /\ hostBlocked' = t.hangs
        /\ ev' = [RegHist("upload", name) EXCEPT
                    !.ok = (t.status = "complete"), !.status = t.status,
                    !.code = file.code, !.compiled = t.analysed,
                    !.duration = t.duration,
                    !.live = IF t.status = "complete" THEN Delete(@, name) ELSE @]

AnalyzeStageWithSystem(systemCode) ==
  /\ RegistryIdle
  /\ LET t == analyzeStageWithSystem(R, SystemName, configs[stageSelect], systemCode)
         name == GeneratedStrategyName(SystemName, configs[stageSelect])
     IN /\ RegStep(t.r)
        /\ hostBlocked' = t.hangs
        /\ ev' = [RegHist("analyze", name) EXCEPT
                    !.ok = t.ret, !.code = systemCode, !.duration = t.duration,
                    !.live = IF t.ret THEN Delete(@, name) ELSE @]

InitRegistry ==
  /\ board = createInitialBoard(stages[1])
  /\ currentStage = 1
  /\ currentPlayer = BLACK
  /\ gameRunning = FALSE
  /\ gameOver = TRUE
  /\ blackTimeUsed = 0
  /\ whiteTimeUsed = 0
  /\ gameLoopTimeout = NoTimer
  /\ isTournamentMode = FALSE
  /\ aiThinking = FALSE
  /\ startButtonDisabled = FALSE
  /\ stageSelect \in UploadStages
  /\ blackAI = "human"
  /\ whiteAI = "human"
  /\ startTimers = 0
  /\ inflight = << >>
  /\ hostBlocked = FALSE
  /\ moveCount = 0
  /\ userEvents = 0
  /\ opsUsed = 0
  /\ RegInit
  /\ ev = RegEvBase

NextRegistry ==
  \/ \E name \in StrategyNames, code \in SaveCodes : SaveStrategy(name, code)
  \/ \E name \in StrategyNames \cup GeneratedNames : DeleteStrategy(name)
  \/ \E file \in ImportFiles : ImportStrategies(file)
  \/ LoadSavedStrategies
  \/ PageLoad
  \/ \E controllerId \in ResolveIds : GetCompiledStrategy(controllerId)
  \/ \E name \in StrategyNames \cup GeneratedNames, validMoves \in TurnMoves :
       Turn(name, validMoves)
  \/ \E file \in SystemFiles : UploadIntelligentSystem(file)
  \/ \E systemCode \in AnalyzeCodes : AnalyzeStageWithSystem(systemCode)

SpecRegistry == InitRegistry /\ [][NextRegistry]_vars

\* ------------------------------- environmentAPI of the analysis interface
\* the while loop of the API's isValidMove and simulateMove for one
\* direction, from cell (r, c): the opponent discs passed, and whether the
\* cell after them holds a disc of player
RECURSIVE ApiScan(_, _, _, _, _, _, _, _)
ApiScan(b, boardSize, r, c, dr, dc, player, toFlip) ==
  IF isWithinBoard(r, c, boardSize) /\ b[r][c] = Opponent(player)
  THEN ApiScan(b, boardSize, r + dr, c + dc, dr, dc, player, toFlip \o << <<r, c>> >>)
  ELSE [toFlip |-> toFlip,
        closed |-> isWithinBoard(r, c, boardSize) /\ b[r][c] = player]

\* const boardSize = board.length
apiIsValidMove(b, row, col, player) ==
  \E boardSize \in { Cardinality(DOMAIN b) } :
    /\ isWithinBoard(row, col, boardSize)
    /\ b[row][col] = EMPTY
    /\ \E i \in 1 .. Len(directions) :
         \E s \in { ApiScan(b, boardSize, row + directions[i][1], col + directions[i][2],
                            directions[i][1], directions[i][2], player, << >>) } :
           Len(s.toFlip) > 0 /\ s.closed

RECURSIVE ApiValidMovesFrom(_, _, _, _)
ApiValidMovesFrom(k, boardSize, b, player) ==
  IF k > boardSize * boardSize THEN << >>
  ELSE LET rc == CellAt(k, boardSize)
           rest == ApiValidMovesFrom(k + 1, boardSize, b, player)
       IN IF apiIsValidMove(b, rc[1], rc[2], player)
          THEN << [row |-> rc[1], col |-> rc[2]] >> \o rest
          ELSE rest

apiGetValidMoves(b, player) ==
  ApiValidMovesFrom(1, Cardinality(DOMAIN b), b, player)

\* the for loop of simulateMove over the directions, from direction i on
RECURSIVE ApiFlipAll(_, _, _, _, _, _)
ApiFlipAll(i, resultBoard, row, col, player, capturedCount) ==
  IF i > Len(directions)
  THEN [valid |-> TRUE, resultingBoard |-> resultBoard, capturedCount |-> capturedCount]
  ELSE LET s == ApiScan(resultBoard, Cardinality(DOMAIN resultBoard),
                        row + directions[i][1], col + directions[i][2],
                        directions[i][1], directions[i][2], player, << >>)
       IN IF Len(s.toFlip) > 0 /\ s.closed
          THEN ApiFlipAll(i + 1,
                          SetCells(resultBoard, { s.toFlip[j] : j \in 1 .. Len(s.toFlip) },
                                   player),
                          row, col, player, capturedCount + Len(s.toFlip))
          ELSE ApiFlipAll(i + 1, resultBoard, row, col, player, capturedCount)

simulateMove(b, player, row, col) ==
  IF ~apiIsValidMove(b, row, col, player)
  THEN [valid |-> FALSE, resultingBoard |-> b, capturedCount |-> 0]
  ELSE ApiFlipAll(1, SetCells(b, { <<row, col>> }, player), row, col, player, 0)

\* the two nested loops of evaluateBoard, from cell k on
RECURSIVE EvaluateFrom(_, _, _, _, _)
EvaluateFrom(k, boardSize, b, player, acc) ==
  IF k > boardSize * boardSize THEN acc
  ELSE LET r == CellAt(k, boardSize)[1]
           c == CellAt(k, boardSize)[2]
           next ==
             IF b[r][c] = player
             THEN IF (r = 0 \/ r = boardSize - 1) /\ (c = 0 \/ c = boardSize - 1)
                  THEN [acc EXCEPT !.playerCount = @ + 1, !.cornerScore = @ + 100]
                  ELSE IF r = 0 \/ r = boardSize - 1 \/ c = 0 \/ c = boardSize - 1
                  THEN [acc EXCEPT !.playerCount = @ + 1, !.edgeScore = @ + 20]
                  ELSE [acc EXCEPT !.playerCount = @ + 1]
             ELSE IF b[r][c] = Opponent(player)
             THEN [acc EXCEPT !.opponentCount = @ + 1]
             ELSE acc
       IN CHOOSE counted \in
            { EvaluateFrom(k + 1, boardSize, b, player, n) : n \in { next } } : TRUE

\* edgeScore * 0.5: edgeScore is a sum of 20s, so the product is whole
TimesHalf(x) == x \div 2

\* the result of evaluateBoard with the edges at their full weight
Scores_FullEdgeWeight(acc, playerMoves, opponentMoves) ==
  [pieceScore |-> acc.playerCount - acc.opponentCount,
   mobilityScore |-> playerMoves - opponentMoves,
   cornerScore |-> acc.cornerScore,
   edgeScore |-> acc.edgeScore,
   totalScore |-> (acc.playerCount - acc.opponentCount)
                    + ((playerMoves - opponentMoves) * 2)
                    + acc.cornerScore + acc.edgeScore]

\* mobilityScore, totalScore and the object evaluateBoard returns
Scores(acc, playerMoves, opponentMoves) ==
  [pieceScore |-> acc.playerCount - acc.opponentCount,
   mobilityScore |-> playerMoves - opponentMoves,
   cornerScore |-> acc.cornerScore,
   edgeScore |-> acc.edgeScore,
   totalScore |-> (acc.playerCount - acc.opponentCount)
                    + ((playerMoves - opponentMoves) * 2)
                    + acc.cornerScore + TimesHalf(acc.edgeScore)]

evaluateBoard(b, player) ==
  CHOOSE scores \in
    { Scores(acc, playerMoves, opponentMoves) :
        acc \in { EvaluateFrom(1, Cardinality(DOMAIN b), b, player,
                               [playerCount |-> 0, opponentCount |-> 0,
                                cornerScore |-> 0, edgeScore |-> 0]) },
        playerMoves \in { Len(apiGetValidMoves(b, player)) },
        opponentMoves \in { Len(apiGetValidMoves(b, Opponent(player))) } } : TRUE

\* an analysis explores a stage with the API: board is the board it holds,
\* starting from initialBoard
ApiEvBase ==
  [ kind |-> "none", player |-> BLACK, row |-> 0, col |-> 0, valid |-> FALSE,
    capturedCount |-> 0, moves |-> << >>,
    scores |-> [pieceScore |-> 0, mobilityScore |-> 0, cornerScore |-> 0,
                edgeScore |-> 0, totalScore |-> 0] ]

ApiFrame ==
  UNCHANGED <<currentStage, currentPlayer, gameRunning, gameOver, ctlVars, uiVars,
              startTimers, inflight, hostBlocked, userEvents, opsUsed, regVars>>

\* the cells an analysis tries: those that are a move for either player, and
\* the first corner
Tried(rc) ==
  \/ rc = <<0, 0>>
  \/ apiIsValidMove(board, rc[1], rc[2], BLACK)
  \/ apiIsValidMove(board, rc[1], rc[2], WHITE)

ApiSimulateMove(player, rc) ==
  /\ moveCount < MaxApiPly
  /\ Tried(rc)
  /\ \E t \in { simulateMove(board, player, rc[1], rc[2]) } :
        /\ board' = t.resultingBoard
        /\ moveCount' = IF t.valid THEN moveCount + 1 ELSE moveCount
        /\ ev' = [ApiEvBase EXCEPT !.kind = "simulateMove", !.player = player,
                                   !.row = rc[1], !.col = rc[2], !.valid = t.valid,
                                   !.capturedCount = t.capturedCount]
  /\ ApiFrame

ApiGetValidMoves(player) ==
  /\ \E moves \in { apiGetValidMoves(board, player) } :
        ev' = [ApiEvBase EXCEPT !.kind = "getValidMoves", !.player = player,
                                !.moves = moves]
  /\ UNCHANGED <<board, moveCount>>
  /\ ApiFrame

ApiEvaluateBoard(player) ==
  /\ \E scores \in { evaluateBoard(board, player) } :
        ev' = [ApiEvBase EXCEPT !.kind = "evaluateBoard", !.player = player,
                                !.scores = scores]
  /\ UNCHANGED <<board, moveCount>>
  /\ ApiFrame

InitApi ==
  /\ currentStage \in 1 .. Len(configs)
  /\ board = createInitialBoard(configs[currentStage])
  /\ currentPlayer = BLACK
  /\ gameRunning = FALSE
  /\ gameOver = FALSE
  /\ blackTimeUsed = 0
  /\ whiteTimeUsed = 0
  /\ gameLoopTimeout = NoTimer
  /\ isTournamentMode = FALSE
  /\ aiThinking = FALSE
  /\ startButtonDisabled = FALSE
  /\ stageSelect = 1
  /\ blackAI = "human"
  /\ whiteAI = "human"
  /\ startTimers = 0
  /\ inflight = << >>
  /\ hostBlocked = FALSE
  /\ moveCount = 0
  /\ userEvents = 0
  /\ opsUsed = 0
  /\ RegInit
  /\ ev = ApiEvBase

\* the cells of the widest board
ApiCells == (0 .. 7) \X (0 .. 7)

NextApi ==
  \/ \E player \in { BLACK, WHITE }, rc \in ApiCells : ApiSimulateMove(player, rc)
  \/ \E player \in { BLACK, WHITE } : ApiGetValidMoves(player)
  \/ \E player \in { BLACK, WHITE } : ApiEvaluateBoard(player)

SpecApi == InitApi /\ [][NextApi]_vars

\* ------------------------------------------------- games played to the end
\* the strategies of games that run to their end: each call returns, with
\* one of the two last cells, null or an exception
FairCells == { <<0, 0>>, <<0, 1>> }

FairResults ==
  { [kind |-> "move", row |-> rc[1], col |-> rc[2]] : rc \in FairCells }
  \cup { [kind |-> k, row |-> -1, col |-> -1] : k \in {"null", "throw"} }

\* the page after the stage of the last two moves was chosen in the
\* drop-down, with a strategy selected for each player
InitFair ==
  /\ board = createInitialBoard(configs[LastTwoId])
  /\ currentStage = LastTwoId
  /\ currentPlayer = BLACK
  /\ gameRunning = FALSE
  /\ gameOver = TRUE
  /\ blackTimeUsed = 0
  /\ whiteTimeUsed = 0
  /\ gameLoopTimeout = NoTimer
  /\ isTournamentMode = FALSE
  /\ aiThinking = FALSE
  /\ startButtonDisabled = FALSE
  /\ stageSelect = LastTwoId
  /\ blackAI \in ControllerIds \ {"human"}
  /\ whiteAI \in ControllerIds \ {"human"}
  /\ startTimers = 0
  /\ inflight = << >>
  /\ hostBlocked = FALSE
  /\ moveCount = 0
  /\ userEvents = 0
  /\ opsUsed = 0
  /\ RegInit
  /\ ev = EvBase

\* a pending strategy call completes: its promise settles, or the deadline
\* timer fires first
CallCompletes ==
  \/ \E i \in 1 .. MaxInFlight, res \in FairResults, elapsed \in MoveTimes :
       StrategyReturns(i, res, elapsed)
  \/ \E i \in 1 .. MaxInFlight, lag \in 0 .. MaxTimerLag : DeadlineFires(i, lag)

\* the ply callback runs, with a strategy that answers through a promise or
\* one that blocks the host until after the deadline
PlyCallbackRuns ==
  \E mode \in {"async", "late"}, res \in FairResults : PlyTimerFires(mode, res)

\* one game, started with the Start button and left to the scheduler: no
\* reset, no stage change, no human
NextFair ==
  \/ userEvents = 0 /\ StartGameClick
  \/ StartTimerFires
  \/ PlyCallbackRuns
  \/ CallCompletes

\* the timers of the browser fire, and every strategy call returns
SpecFair ==
  /\ InitFair
  /\ [][NextFair]_vars
  /\ WF_vars(StartTimerFires)
  /\ WF_vars(PlyCallbackRuns)
  /\ WF_vars(CallCompletes)

\* games that are started, reset and started again at any moment, played by
\* strategies that answer at once or let the deadline pass
NextReset ==
  \/ StartGameClick
  \/ StartTimerFires
  \/ ResetClick
  \/ PlyTimerFires("async", NullResult)
  \/ \E i \in 1 .. MaxInFlight, res \in UIResults : StrategyReturns(i, res, 0)
  \/ \E i \in 1 .. MaxInFlight, lag \in 0 .. MaxTimerLag : DeadlineFires(i, lag)

SpecReset == Init /\ [][NextReset]_vars
\* ------------------------------------------------ the page is loaded again
\* GameLogger.loadFromLocalStorage on a logger: both items are read from
\* localStorage, and an item that is missing leaves the field as it is
loadFromLocalStorage(logger, items) ==
  LET resultsData == GetItem(items, "othelloGameResults")
      gamesData == GetItem(items, "othelloPreviousGames")
  IN [ gameResults |-> IF resultsData # NullItem THEN Parse(resultsData)
                       ELSE logger.gameResults,
       previousGames |-> IF gamesData # NullItem THEN Parse(gamesData)
                         ELSE logger.previousGames,
       decided |-> logger.decided ]

\* Tournament.loadLeaderboardData
loadLeaderboardData(items) ==
  LET data == GetItem(items, "othelloLeaderboard")
  IN IF data # NullItem THEN Parse(data) ELSE NewLeaderboard

\* the page is loaded again in the same tab and initializeApp runs: the
\* scripts start afresh, with no timer and no call pending, and the two
\* storages are as they were. Nothing is saved in the strategy registry in
\* these games, and the drop-downs are set as before.
Reload ==
  /\ userEvents < MaxUserEvents
  /\ userEvents' = userEvents + 1
  /\ gameLogger' = loadFromLocalStorage(NewGameLogger, otherItems)
  /\ tournament' = [NewTournament EXCEPT !.leaderboardData = loadLeaderboardData(otherItems)]
  /\ board' = createInitialBoard(stages[1])
  /\ currentStage' = 1
  /\ currentPlayer' = BLACK
  /\ gameRunning' = FALSE
  /\ gameOver' = TRUE
  /\ blackTimeUsed' = 0
  /\ whiteTimeUsed' = 0
  /\ gameLoopTimeout' = NoTimer
  /\ isTournamentMode' = FALSE
  /\ aiThinking' = FALSE
  /\ startButtonDisabled' = FALSE
  /\ stageSelect' = 1
  /\ startTimers' = 0
  /\ inflight' = << >>
  /\ hostBlocked' = FALSE
  /\ ev' = [EvBase EXCEPT !.kind = "reload"]
  /\ UNCHANGED <<blackAI, whiteAI, moveCount, opsUsed, sessionStorage, otherItems>>
  /\ UNCHANGED <<savedStrategies, compiledStudentAIs, compiledIntelligentSystems,
                 intelligentSystems, localStorage, console, compiles, scopes,
                 registryOps>>

\* games started with the Start button and played to a result, and the page
\* loaded again between them or in the middle of one
NextLogger ==
  \/ StartGameClick
  \/ StartTimerFires
  \/ Reload
  \/ PlyTimerFires("async", NullResult)
  \/ \E i \in 1 .. MaxInFlight, res \in UIResults : StrategyReturns(i, res, 0)
  \/ \E i \in 1 .. MaxInFlight, lag \in 0 .. MaxTimerLag : DeadlineFires(i, lag)

SpecLogger == Init /\ [][NextLogger]_vars
\* ------------------------------------------------------------- Tournament
\* the entry recordGameResult creates for a name
ZeroEntry == [kind |-> "entry", wins |-> 0, losses |-> 0, draws |-> 0, totalGames |-> 0]

\* if (!leaderboardData.results[name]) leaderboardData.results[name] = {...}
EnsureEntry(results, name) ==
  IF ~Truthy(Get(results, name)) THEN Set(results, name, ZeroEntry) ELSE results

\* leaderboardData.results[name][field]++ : on the entry of the name when it
\* has one, else on the object the name inherits, which is no entry
Increment(results, name, field) ==
  IF name \in DOMAIN results THEN [results EXCEPT ![name][field] = @ + 1]
  ELSE results

\* Tournament.saveLeaderboardData
saveLeaderboardData(leaderboard, items) ==
  SetItem(items, "othelloLeaderboard", Stringify(leaderboard))

\* Tournament.recordGameResult: the leaderboard and localStorage after it
recordGameResult(leaderboard, items, blackName, whiteName, winner, scores) ==
  LET match == [black |-> blackName, white |-> whiteName, winner |-> winner,
                score |-> scores]
      r1 == EnsureEntry(EnsureEntry(leaderboard.results, blackName), whiteName)
      r2 == IF winner = 1
            THEN Increment(Increment(r1, blackName, "wins"), whiteName, "losses")
            ELSE IF winner = 2
            THEN Increment(Increment(r1, blackName, "losses"), whiteName, "wins")
            ELSE Increment(Increment(r1, blackName, "draws"), whiteName, "draws")
      r3 == Increment(Increment(r2, blackName, "totalGames"), whiteName, "totalGames")
      after == [matches |-> Append(leaderboard.matches, match), results |-> r3]
  IN [leaderboardData |-> after, items |-> saveLeaderboardData(after, items)]

\* the built-in strategies sorted by id, with the names getAllStrategies
\* gives them, and the saved ones sorted by name
BuiltInEntrants ==
  << [id |-> "corners", name |-> "Corners"], [id |-> "greedy", name |-> "Greedy"],
     [id |-> "positional", name |-> "Positional"], [id |-> "random", name |-> "Random"] >>

CustomEntrants ==
  << [id |-> "custom_constructor", name |-> "constructor"],
     [id |-> "custom_random", name |-> "random"] >>

getAllStrategies(saved) ==
  BuiltInEntrants \o SelectSeq(CustomEntrants, LAMBDA e : e.name \in DOMAIN saved)

\* the pair of the double loop of runTournament after (i, j), counted from 1,
\* or <<0, 0>> after the last one
NextPair(i, j, n) ==
  LET later == { p \in (1 .. n) \X (1 .. n) :
                   /\ p[1] # p[2]
                   /\ p[1] > i \/ (p[1] = i /\ p[2] > j) }
  IN IF later = {} THEN <<0, 0>>
     ELSE CHOOSE p \in later :
            \A q \in later : p[1] < q[1] \/ (p[1] = q[1] /\ p[2] <= q[2])

\* the winner the poll of playTournamentGame works out from the disc counts
polledWinner(scores) ==
  IF scores.black > scores.white THEN 1
  ELSE IF scores.white > scores.black THEN 2
  ELSE 0

\* what the tournament actions leave alone
TournamentFrame ==
  UNCHANGED <<savedStrategies, compiledStudentAIs, compiledIntelligentSystems,
              intelligentSystems, localStorage, console, compiles, scopes,
              registryOps, hostBlocked, moveCount, opsUsed, stageSelect>>

\* click on Run Tournament: runTournament up to its first await
RunTournamentClick ==
  /\ ~hostBlocked
  /\ userEvents < MaxUserEvents
  /\ ~tournament.runButtonDisabled
  /\ userEvents' = userEvents + 1
  /\ tournament' =
       IF tournament.isTournamentMode THEN tournament
       ELSE [tournament EXCEPT
               !.isTournamentMode = TRUE,
               !.runButtonDisabled = TRUE,
               !.currentTournamentStageConfig = stageSelect,
               !.leaderboardData = NewLeaderboard,
               !.loops = Append(@, [pc |-> "sleep", i |-> 1, j |-> 2,
                                    allStrategies |-> getAllStrategies(savedStrategies),
                                    blackName |-> "", whiteName |-> ""])]
  /\ ev' = [EvBase EXCEPT !.kind = "runTournament"]
  /\ UNCHANGED <<coreVars, ctlVars, uiVars, startTimers, inflight, otherItems>>
  /\ TournamentFrame

\* click on Stop Tournament while a tournament is on: stopTournament
StopTournamentClick ==
  /\ ~hostBlocked
  /\ userEvents < MaxUserEvents
  /\ tournament.isTournamentMode
  /\ userEvents' = userEvents + 1
  /\ tournament' = [tournament EXCEPT !.isTournamentMode = FALSE,
                                      !.runButtonDisabled = FALSE]
  /\ otherItems' = saveLeaderboardData(tournament.leaderboardData, otherItems)
  /\ ev' = [EvBase EXCEPT !.kind = "stopTournament"]
  /\ UNCHANGED <<coreVars, ctlVars, uiVars, startTimers, inflight>>
  /\ TournamentFrame

\* the 10 ms sleep of loop k is over: the two drop-downs are set and
\* playTournamentGame starts the game and its poll
LoopTimerFires(k) ==
  /\ ~hostBlocked
  /\ k \in 1 .. Len(tournament.loops)
  /\ tournament.loops[k].pc = "sleep"
  /\ Len(gameLogger.gameResults) < MaxMatches
  /\ LET loop == tournament.loops[k]
         p1S == loop.allStrategies[loop.i]
         p2S == loop.allStrategies[loop.j]
     IN /\ blackAI' = p1S.id
        /\ whiteAI' = p2S.id
        /\ tournament' = [tournament EXCEPT
                            !.loops[k] = [loop EXCEPT !.pc = "poll",
                                                      !.blackName = p1S.name,
                                                      !.whiteName = p2S.name]]
        /\ \E t \in { startGame(S, TRUE, tournament.currentTournamentStageConfig) } :
             Commit(t) /\ ev' = Hist(t, "start")
  /\ startTimers' = startTimers + 1
  /\ inflight' = EarlierGame(inflight)
  /\ UNCHANGED <<userEvents, otherItems>>
  /\ TournamentFrame

\* runTournament of loop k after its game was recorded: on to the next pair,
\* or out of the loops when the tournament was stopped or is complete
AfterGame(tn, items, k) ==
  LET loop == tn.loops[k]
      next == NextPair(loop.i, loop.j, Len(loop.allStrategies))
  IN IF tn.isTournamentMode /\ next # <<0, 0>>
     THEN [tournament |-> [tn EXCEPT !.loops[k] = [loop EXCEPT !.pc = "sleep",
                                                               !.i = next[1],
                                                               !.j = next[2]]],
           items |-> items]
     ELSE [tournament |-> [tn EXCEPT !.isTournamentMode = FALSE,
                                     !.runButtonDisabled = FALSE,
                                     !.loops = RemoveAt(@, k)],
           items |-> saveLeaderboardData(tn.leaderboardData, items)]

\* the 20 ms poll of loop k finds that no game is running: it records the
\* match and runTournament goes on
Poll(k) ==
  /\ ~hostBlocked
  /\ k \in 1 .. Len(tournament.loops)
  /\ tournament.loops[k].pc = "poll"
  /\ ~gameRunning
  /\ LET loop == tournament.loops[k]
         scores == countDiscs(board)
         recorded == recordGameResult(tournament.leaderboardData, otherItems,
                                      loop.blackName, loop.whiteName,
                                      polledWinner(scores), scores)
         after == AfterGame([tournament EXCEPT
                               !.leaderboardData = recorded.leaderboardData],
                            recorded.items, k)
     IN /\ tournament' = after.tournament
        /\ otherItems' = after.items
  /\ ev' = [EvBase EXCEPT !.kind = "recorded"]
  /\ UNCHANGED <<coreVars, ctlVars, uiVars, startTimers, inflight, userEvents>>
  /\ TournamentFrame

\* tournaments run and stopped with their two buttons, on the stage of the
\* drop-down, between strategies that answer at once or let the deadline pass
InitTournament ==
  /\ board = createInitialBoard(configs[LastTwoId])
  /\ currentStage = LastTwoId
  /\ currentPlayer = BLACK
  /\ gameRunning = FALSE
  /\ gameOver = TRUE
  /\ blackTimeUsed = 0
  /\ whiteTimeUsed = 0
  /\ gameLoopTimeout = NoTimer
  /\ isTournamentMode = FALSE
  /\ aiThinking = FALSE
  /\ startButtonDisabled = FALSE
  /\ stageSelect = LastTwoId
  /\ blackAI = "random"
  /\ whiteAI = "random"
  /\ startTimers = 0
  /\ inflight = << >>
  /\ hostBlocked = FALSE
  /\ moveCount = 0
  /\ userEvents = 0
  /\ opsUsed = 0
  /\ RegInit
  /\ ev = EvBase

NextTournament ==
  \/ RunTournamentClick
  \/ StopTournamentClick
  \/ \E k \in 1 .. MaxUserEvents : LoopTimerFires(k)
  \/ \E k \in 1 .. MaxUserEvents : Poll(k)
  \/ StartTimer(TRUE)
  \/ PlyTimerFires("async", NullResult)
  \/ \E i \in 1 .. MaxInFlight, res \in FairResults : StrategyReturns(i, res, 0)
  \/ \E i \in 1 .. MaxInFlight, lag \in 0 .. MaxTimerLag : DeadlineFires(i, lag)

SpecTournament == InitTournament /\ [][NextTournament]_vars

\* matches recorded through Tournament.recordGameResult between the names
\* of two built-in strategies and a saved one, and the leaderboard reset
EntrantNames == { "Corners", "Greedy", "constructor" }

RecordGameResult(blackName, whiteName, winner) ==
  /\ blackName # whiteName
  /\ Len(tournament.leaderboardData.matches) < MaxMatches
  /\ LET recorded == recordGameResult(tournament.leaderboardData, otherItems,
                                      blackName, whiteName, winner, countDiscs(board))
     IN /\ tournament' = [tournament EXCEPT !.leaderboardData = recorded.leaderboardData]
        /\ otherItems' = recorded.items
  /\ ev' = [EvBase EXCEPT !.kind = "recorded"]
  /\ UNCHANGED <<coreVars, ctlVars, uiVars, startTimers, inflight, userEvents>>
  /\ TournamentFrame

\* click on Reset Records: resetLeaderboard
ResetLeaderboard ==
  /\ userEvents < MaxUserEvents
  /\ ~tournament.isTournamentMode
  /\ userEvents' = userEvents + 1
  /\ tournament' = [tournament EXCEPT !.leaderboardData = NewLeaderboard]
  /\ otherItems' = Delete(otherItems, "othelloLeaderboard")
  /\ ev' = [EvBase EXCEPT !.kind = "resetLeaderboard"]
  /\ UNCHANGED <<coreVars, ctlVars, uiVars, startTimers, inflight>>
  /\ TournamentFrame

NextLeaderboard ==
  \/ \E blackName \in EntrantNames, whiteName \in EntrantNames, winner \in 0 .. 2 :
       RecordGameResult(blackName, whiteName, winner)
  \/ ResetLeaderboard

SpecLeaderboard == InitTournament /\ [][NextLeaderboard]_vars
\* -------------------------------------------------------------- properties
\* the step that settled a strategy invocation: its promise resolved, its
\* deadline fired, or its synchronous call returned
Completed == ev.kind = "complete"

\* the calls of makeMove that step made for the ply of that invocation
OwnPlySeq == SelectSeq(ev.applied, LAMBDA a : a.turn = 0)

OwnPly == Elements(OwnPlySeq)

\* membership in the list getValidMoves gave the scheduler before the call
InPrecomputed(row, col) ==
  \E v \in Elements(ev.precomputed) : v.row = row /\ v.col = col

\* the cumulative time of the player of that invocation, after the step
TimeAfter == IF ev.player = BLACK THEN blackTimeUsed ELSE whiteTimeUsed

TimeAtCheck == ev.timeBefore + ev.elapsed

\* the step gave the game to the opponent on time
Forfeited ==
  /\ ev.applied = << >>
  /\ Len(ev.ended) = 1
  /\ ev.ended[1].arg = Opponent(ev.player)
  /\ gameOver
  /\ ~gameRunning

\* C1: no use a pending strategy makes of its arguments (a write to the board
\* it was given, an edit of the legal-move list, a call of the makeMove it
\* was handed) changes the live board or the list its result is validated
\* against.
C1_StrategyCannotTouchSchedulerState ==
  [][ ev'.kind = "strategyOp" =>
        /\ board' = board
        /\ Len(inflight') = Len(inflight)
        /\ \A i \in 1 .. Len(inflight) :
             inflight'[i].validMoves = inflight[i].validMoves ]_vars

\* C2: when a strategy's result is null or a coordinate outside the
\* precomputed list and the player is within the time budget, the scheduler
\* applies exactly one move for the ply, a move of the precomputed list.
C2_FallbackAppliesOneListedMove ==
  ( /\ Completed
    /\ \/ ev.res = "null"
       \/ ev.res = "move" /\ ~InPrecomputed(ev.resRow, ev.resCol)
    /\ TimeAfter <= MAX_AI_TIME_PER_GAME )
  => /\ Len(OwnPlySeq) = 1
     /\ OwnPlySeq[1].placed
     /\ InPrecomputed(OwnPlySeq[1].row, OwnPlySeq[1].col)

\* C3: a call of makeMove with a move for which isValidMove is false leaves
\* the board as it was and returns false.
C3_IllegalMoveLeavesBoard ==
  (ev.kind = "strategyOp" /\ ev.op = "makeMove" /\ ~ev.wasValid)
  => (~ev.boardChanged /\ ~ev.ret)

\* C4: when the cumulative time of a player exceeds MAX_AI_TIME_PER_GAME
\* after a strategy call, no move is applied, every cell that is not Blocked
\* holds the opponent's colour, endGame is called with the opponent as the
\* winner, and the game is over.
C4_TimeForfeit ==
  (Completed /\ TimeAtCheck > MAX_AI_TIME_PER_GAME)
  => /\ Forfeited
     /\ \A r \in Idx, c \in Idx :
          board[r][c] = (IF createInitialBoard(configs[currentStage])[r][c] = BLOCKED
                         THEN BLOCKED ELSE Opponent(ev.player))

\* on a stage with Blocked cells a strategy hands back a legal move, too
\* late: the player had used time before, and the total passes the budget
C4_Witness ==
  /\ Completed
  /\ ev.res = "move"
  /\ InPrecomputed(ev.resRow, ev.resCol)
  /\ ev.timeBefore > 0
  /\ TimeAtCheck > MAX_AI_TIME_PER_GAME
  /\ \E r \in Idx, c \in Idx : board[r][c] = BLOCKED

\* C5: a fallback move chosen because the result was null, missing or not in
\* the list costs the player randomStrategyTime, and is applied after the
\* time check on the total that includes it.
C5_FallbackCostsPenalty ==
  Completed =>
    \A a \in OwnPly :
      a.how # "strategy" =>
        /\ a.penalty = randomStrategyTime
        /\ a.timeAtApply = TimeAtCheck + randomStrategyTime

\* C6: when the deadline timer of a turn fires before the strategy returned,
\* the player forfeits the game on that ply.
C6_DeadlineForfeits ==
  (Completed /\ ev.timedOut) => Forfeited

\* C7: a strategy that never returns, or returns after its deadline, does
\* not keep the scheduler from settling the ply once the deadline has passed:
\* the call never holds the host for good, and when the deadline fired or
\* the call came back late a move is placed (or the game is given up on
\* time) with the elapsed time added to the player.
C7_MoveDespiteLateStrategy ==
  /\ ~hostBlocked
  /\ (Completed /\ (ev.timedOut \/ ev.late))
     => /\ (\E a \in OwnPly : a.placed) \/ Forfeited
        /\ TimeAfter = TimeAtCheck

\* C8: when the strategy throws or its promise rejects (and the player is
\* within the time budget) the result counts as null: one move of the
\* precomputed list is applied and the scheduler goes on to the next turn.
C8_ThrowBecomesFallback ==
  (Completed /\ ev.res = "throw" /\ TimeAtCheck <= MAX_AI_TIME_PER_GAME)
  => /\ Len(OwnPlySeq) = 1
     /\ OwnPlySeq[1].placed
     /\ InPrecomputed(OwnPlySeq[1].row, OwnPlySeq[1].col)
     /\ ev.turns >= 1

\* C9: the scheduler and the human handler call makeMove on the live board
\* only while gameRunning is true and gameOver is false.
C9_MovesOnlyWhileRunning ==
  \A a \in Elements(ev.applied) : a.running /\ ~a.over

\* C10: at most one strategy invocation is in flight at any time.
C10_OneInvocationInFlight == Len(inflight) <= 1

\* ------------------------------------------------ properties of the engine
\* a call of makeMove for the player to move, followed by the choice of the
\* next player
CorePlyDone == ev.kind = "corePly"

StageNow == configs[currentStage]

\* the cells of b in row-major order, numbered from 0
RowMajor(b, row, col) == row * Cardinality(DOMAIN b) + col

\* the number of cells from (r, c) on, in direction (dr, dc), that hold a
\* disc of the opponent of p or are Blocked
RECURSIVE RunLen(_, _, _, _, _, _)
RunLen(b, r, c, dr, dc, p) ==
  IF r \in DOMAIN b /\ c \in DOMAIN b /\ b[r][c] \in {Opponent(p), BLOCKED}
  THEN 1 + RunLen(b, r + dr, c + dc, dr, dc, p)
  ELSE 0

\* those cells, for the move (row, col) of p and direction d
LineCells(b, row, col, d, p) ==
  { <<row + k * d[1], col + k * d[2]>> :
      k \in 1 .. RunLen(b, row + d[1], col + d[2], d[1], d[2], p) }

\* the line holds a disc of the opponent and is ended by a disc of p
Bracketed(b, row, col, d, p) ==
  LET n == RunLen(b, row + d[1], col + d[2], d[1], d[2], p)
      er == row + (n + 1) * d[1]
      ec == col + (n + 1) * d[2]
  IN /\ \E rc \in LineCells(b, row, col, d, p) : b[rc[1]][rc[2]] = Opponent(p)
     /\ er \in DOMAIN b /\ ec \in DOMAIN b
     /\ b[er][ec] = p

HasBlocked(b, cells) == \E rc \in cells : b[rc[1]][rc[2]] = BLOCKED

Dirs == Elements(directions)

\* C14: after a move is applied the next player is the mover's opponent when
\* fewerPiecesContinue is off; when it is on, the player with strictly fewer
\* discs on the resulting board, and the mover's opponent on equal counts.
C14_NextPlayerRule ==
  (CorePlyDone /\ ev.placed) =>
    LET mover == ev.player
        mine == CountOf(board, mover)
        theirs == CountOf(board, Opponent(mover))
    IN currentPlayer = (IF StageNow.fewerPiecesContinue /\ mine < theirs
                        THEN mover ELSE Opponent(mover))

\* a legal move under fewerPiecesContinue after which the mover has fewer
\* discs and moves again
C14_Witness ==
  /\ CorePlyDone /\ ev.wasValid
  /\ StageNow.fewerPiecesContinue
  /\ CountOf(board, ev.player) < CountOf(board, Opponent(ev.player))
  /\ currentPlayer = ev.player

\* C15: getValidMoves returns exactly the coordinates for which isValidMove
\* is true, each once, in row-major order.
C15_ValidMovesAreTheLegalCells ==
  ev.kind = "getValidMoves" =>
    /\ \A r \in DOMAIN board, c \in DOMAIN board :
         isValidMove(r, c, ev.player, board, StageNow)
           <=> (\E i \in 1 .. Len(ev.moves) : ev.moves[i] = [row |-> r, col |-> c])
    /\ \A i \in 1 .. Len(ev.moves) :
         /\ isValidMove(ev.moves[i].row, ev.moves[i].col, ev.player, board, StageNow)
         /\ i > 1 => RowMajor(board, ev.moves[i - 1].row, ev.moves[i - 1].col)
                       < RowMajor(board, ev.moves[i].row, ev.moves[i].col)

\* a list of several moves that span more than one row and more than one
\* column
C15_Witness ==
  /\ ev.kind = "getValidMoves"
  /\ Len(ev.moves) >= 3
  /\ \E i, j \in 1 .. Len(ev.moves) :
       ev.moves[i].row < ev.moves[j].row /\ ev.moves[i].col > ev.moves[j].col

\* C16: on the initial board of the Standard 8x8 stage the legal moves of
\* Black are (2,3), (3,2), (4,5) and (5,4).
C16_StandardOpeningMoves ==
  ( /\ ev.kind = "getValidMoves" /\ ev.player = BLACK
    /\ StageNow = Standard8x8
    /\ board = createInitialBoard(Standard8x8) )
  => Elements(ev.moves) = { [row |-> 2, col |-> 3], [row |-> 3, col |-> 2],
                            [row |-> 4, col |-> 5], [row |-> 5, col |-> 4] }

C16_Witness ==
  /\ ev.kind = "getValidMoves" /\ ev.player = BLACK
  /\ StageNow = Standard8x8
  /\ board = createInitialBoard(Standard8x8)
  /\ Len(ev.moves) = 4

\* C17: with ignoreOcclusion on, a move on an empty cell from which a line of
\* opposing discs and Blocked cells (one opposing disc at least) runs up to a
\* disc of the mover is legal, makeMove turns every opposing disc of the line
\* and leaves its Blocked cells Blocked; with ignoreOcclusion off, such a
\* line with a Blocked cell on it is left as it was.
C17_OcclusionRule ==
  (CorePlyDone /\ ev.placed) =>
    \A d \in Dirs :
      LET line == LineCells(ev.before, ev.resRow, ev.resCol, d, ev.player)
      IN Bracketed(ev.before, ev.resRow, ev.resCol, d, ev.player) =>
           IF StageNow.ignoreOcclusion
           THEN /\ ev.wasValid
                /\ \A rc \in line :
                     board[rc[1]][rc[2]] =
                       (IF ev.before[rc[1]][rc[2]] = BLOCKED THEN BLOCKED ELSE ev.player)
           ELSE HasBlocked(ev.before, line) =>
                  \A rc \in line : board[rc[1]][rc[2]] = ev.before[rc[1]][rc[2]]

\* a move with ignoreOcclusion on along a line that has opposing discs on
\* both sides of a Blocked cell
C17_Witness ==
  /\ CorePlyDone /\ ev.placed
  /\ StageNow.ignoreOcclusion
  /\ \E d \in Dirs :
       LET line == LineCells(ev.before, ev.resRow, ev.resCol, d, ev.player)
       IN /\ Bracketed(ev.before, ev.resRow, ev.resCol, d, ev.player)
          /\ \E x \in line, y \in line, z \in line :
               /\ ev.before[x[1]][x[2]] = Opponent(ev.player)
               /\ ev.before[y[1]][y[2]] = BLOCKED
               /\ ev.before[z[1]][z[2]] = Opponent(ev.player)
               /\ RowMajor(board, x[1], x[2]) < RowMajor(board, y[1], y[2])
               /\ RowMajor(board, y[1], y[2]) < RowMajor(board, z[1], z[2])

\* C18: a call of makeMove never lowers the disc count of the mover and never
\* raises the disc count of the opponent.
C18_CountsMoveOneWay ==
  CorePlyDone =>
    /\ CountOf(board, ev.player) >= CountOf(ev.before, ev.player)
    /\ CountOf(board, Opponent(ev.player)) <= CountOf(ev.before, Opponent(ev.player))

\* a move that turned discs: the mover gained and the opponent lost
C18_Witness ==
  /\ CorePlyDone /\ ev.ret
  /\ CountOf(board, ev.player) > CountOf(ev.before, ev.player) + 1
  /\ CountOf(board, Opponent(ev.player)) < CountOf(ev.before, Opponent(ev.player))

\* ------------------------------------------------------- the ends of games
HasMove(player) == Len(getValidMoves(player, board, StageNow)) > 0

\* the game is on and the model still lets the scheduler place a disc
InPlay == gameRunning /\ ~gameOver /\ moveCount < MaxPly

\* the passes of the last step that a strategy's handler made
StrategyPasses ==
  { ev.passes[i] : i \in { j \in 1 .. Len(ev.passes) : ev.passes[j].how # "human" } }

\* C11: when the player to move is a strategy without a legal move while the
\* opponent has one, the turn passes to the opponent, whatever the
\* fewer-pieces rule says, and the board and both time counters stay as they
\* were: every pass a strategy's handler makes is such a pass, and no step
\* leaves the turn with a strategy in that situation.
C11_StrategyPassIsSilent ==
  /\ \A p \in StrategyPasses : p.to = Opponent(p.from) /\ p.sameBoard /\ p.sameTime
  /\ (InPlay /\ ControllerOf(currentPlayer) # "human")
       => ~(~HasMove(currentPlayer) /\ HasMove(Opponent(currentPlayer)))

\* a strategy passed on the stage whose rule had just given it the turn again
\* because it has fewer discs
C11_Witness ==
  /\ StageNow.fewerPiecesContinue
  /\ \E p \in StrategyPasses :
       /\ p.how = "makeAIMove"
       /\ currentPlayer = p.to
       /\ CountOf(board, p.from) < CountOf(board, p.to)

\* C12: whenever it becomes a player's turn and neither player has a legal
\* move, the game ends with no further move applied, whichever controller
\* the player to move has: no step leaves a game on in which neither player
\* has a move.
C12_NoMovesEndsTheGame ==
  InPlay => (HasMove(BLACK) \/ HasMove(WHITE))

\* the calls of endGame() in the last step that ended a running game for
\* want of a legal move (a forfeit names its winner in the call)
EndedOnMoves ==
  { ev.ended[i] : i \in { j \in 1 .. Len(ev.ended) :
                            ev.ended[j].ran /\ ev.ended[j].arg = 0 } }

\* C13: when a game ends because neither player has a legal move, the winner
\* is the player with strictly more discs on the final board, and the game
\* is a tie exactly when the two counts are equal; the result the logger
\* saves names the same winner.
C13_WinnerByDiscCount ==
  \A e \in EndedOnMoves :
    LET black == CountOf(board, BLACK)
        white == CountOf(board, WHITE)
    IN /\ e.winner = BLACK <=> black > white
       /\ e.winner = WHITE <=> white > black
       /\ e.winner = 0 <=> black = white
       /\ e.saved = e.winner

\* a game that ended in a tie on a board without a move for either player
C13_Witness ==
  /\ gameOver /\ ~gameRunning
  /\ ~HasMove(BLACK) /\ ~HasMove(WHITE)
  /\ CountOf(board, BLACK) = CountOf(board, WHITE)
  /\ \E e \in EndedOnMoves : e.winner = 0

\* the cells of the board in play that hold v
CellsHolding(b, v) ==
  { rc \in (DOMAIN b) \X (DOMAIN b) : b[rc[1]][rc[2]] = v }

\* C19: a cell that is Blocked on the initial board of the stage is Blocked in
\* every later state of the game, and no other cell ever becomes Blocked,
\* across moves, passes, fallback moves and time forfeiture.
C19_BlockedCellsStay ==
  CellsHolding(board, BLOCKED) = CellsHolding(createInitialBoard(StageNow), BLOCKED)

\* a game on a stage with Blocked cells that ended by time forfeiture: the
\* winner's colour fills every cell but the Blocked ones
C19_Witness ==
  /\ StageNow.initialBlocked # {}
  /\ gameOver
  /\ \E i \in 1 .. Len(ev.ended) :
       /\ ev.ended[i].ran /\ ev.ended[i].arg # 0
       /\ CellsHolding(board, ev.ended[i].arg) \cup StageNow.initialBlocked
            = (DOMAIN board) \X (DOMAIN board)

\* the step is a click on a cell that is not a legal move, made while the
\* human is to move in a running game
IllegalClick ==
  /\ ev'.kind = "human" /\ ev'.onCell /\ ~ev'.wasValid
  /\ ControllerOf(currentPlayer) = "human"
  /\ gameRunning /\ ~gameOver

\* what such a click is to leave alone: the board, the turn, the time
\* counters, the flags, and what the scheduler is waiting for
ClickFrame ==
  <<board, currentPlayer, blackTimeUsed, whiteTimeUsed, gameRunning, gameOver,
    gameLoopTimeout, inflight>>

\* C20: a human click on a cell that is not a legal move for the human player
\* to move changes nothing: the board, the current player, both time counters
\* and the running and over flags are as before, and the scheduler keeps
\* waiting for that player.
C20_IllegalClickChangesNothing ==
  [][IllegalClick => UNCHANGED ClickFrame]_vars

\* C20, for a human player who has a legal move: a click on a cell that is
\* not one of them changes nothing.
C20_IllegalClickWithMovesChangesNothing ==
  [][(IllegalClick /\ HasMove(currentPlayer)) => UNCHANGED ClickFrame]_vars

\* the human, who has a legal move, has just clicked on a cell that is none
C20_Witness ==
  /\ ev.kind = "human" /\ ev.onCell /\ ~ev.wasValid
  /\ ev.player = currentPlayer
  /\ ControllerOf(currentPlayer) = "human"
  /\ gameRunning /\ ~gameOver
  /\ HasMove(currentPlayer)
  /\ ev.applied = << >> /\ ev.passes = << >> /\ ev.ended = << >>

\* ------------------------------------------- properties of the registry
AsksForCustom == ev'.kind \in { "resolve", "turn" } /\ ev'.custom

\* C21: getCompiledStrategy returns the cached callable of a custom name
\* exactly when the name was not saved, imported, deleted or reloaded since
\* the callable was compiled; otherwise it compiles the source saved now, and
\* returns null when no source is saved under the name.
C21_CachedUntilInvalidated ==
  [][ AsksForCustom =>
        IF ev'.name \in DOMAIN ev.live
        THEN ev'.ret = ev.live[ev'.name] /\ ~ev'.compiled
        ELSE IF ev'.name \in DOMAIN savedStrategies
        THEN IF NewFunctionAccepts(savedStrategies[ev'.name])
             THEN /\ ev'.compiled
                  /\ ev'.ret.kind = "compiled"
                  /\ ev'.ret.code = savedStrategies[ev'.name]
                  /\ ev'.ret.fn > compiles
             ELSE ev'.ret = Null
        ELSE ev'.ret = Null ]_vars

SameCallableAgain ==
  /\ ev.kind = "turn" /\ ev'.kind = "turn"
  /\ ev'.name = ev.name /\ ev'.ret = ev.ret

\* C22: what the source of an uploaded strategy keeps in variables declared
\* outside studentStrategy persists from one turn's call to the next while
\* the compiled strategy stays cached: a strategy that counts its calls in
\* such a variable counts one more on the next turn.
C22_OuterStatePersists ==
  [][ (SameCallableAgain /\ ev'.ret.kind = "compiled" /\ ev'.ret.code.id = "counting")
        => ev'.seen = ev.seen + 1 ]_vars

\* a text a strategy can be made of: it parses and defines studentStrategy
Usable(code) ==
  code.kind = "source" /\ Texts[code.id].syntaxOk /\ Texts[code.id].definesStudent

\* C23: a strategy source that does not define studentStrategy, or does not
\* compile, is rejected by saveStrategy and by the file import, and is never
\* registered.
C23_UnusableSourceIsRejected ==
  /\ (ev.kind \in { "save", "import" } /\ ~Usable(ev.code)) => ~ev.ok
  /\ \A name \in getStrategyNames(R) : Usable(savedStrategies[name])

AsksForBuiltIn == ev'.kind = "resolve" /\ ~ev'.custom /\ ev'.name \in BuiltInIds

\* C24: whatever was saved, imported, deleted or loaded before, also under
\* the name of a built-in, every built-in id (random, greedy, corners,
\* positional) resolves through getCompiledStrategy to its built-in function,
\* and deleteStrategy removes any strategy that is registered, uploaded or
\* generated.
C24_BuiltInsResolveAndDeleteRemoves ==
  [][ /\ AsksForBuiltIn => ev'.ret = [kind |-> "builtin", id |-> ev'.name]
      /\ ev'.kind = "delete" =>
           /\ ev'.name \notin DOMAIN savedStrategies'
           /\ ev'.name \notin DOMAIN compiledStudentAIs'
           /\ ev'.name \in DOMAIN savedStrategies => ev'.ok ]_vars

\* the id random was asked for while a strategy saved as 'random' was
\* registered and compiled
C24_Witness ==
  /\ ev.kind = "resolve" /\ ~ev.custom /\ ev.name = "random"
  /\ ev.ret.kind = "builtin"
  /\ "random" \in DOMAIN savedStrategies
  /\ Get(compiledStudentAIs, "random").kind = "compiled"

AnalysisDone == ev'.kind \in { "upload", "analyze" }

\* C25: an analysis whose analyzeStage does not finish within the timeout
\* (60000 ms) is ended by the host: the host is not left inside the call,
\* analyzeStageWithSystem reports failure and no strategy is registered.
C25_LongAnalysisIsEnded ==
  [][ AnalysisDone =>
        /\ ~hostBlocked'
        /\ ev'.duration > analysisTimeout =>
             /\ ~ev'.ok
             /\ UNCHANGED <<savedStrategies, compiledIntelligentSystems>> ]_vars

\* analyzeStage of the uploaded text returned something that is no function
ReturnedNoFunction ==
  /\ ev.kind = "upload" /\ ev.compiled
  /\ Texts[ev.code.id].syntaxOk /\ Texts[ev.code.id].definesAnalyze
  /\ Texts[ev.code.id].outcome = "value"

\* the strategy registered in place of such a result was called with moves
CalledFallback ==
  /\ ev.kind = "turn" /\ ev.ret.kind = "compiled" /\ ev.ret.code.id = "wrapper"
  /\ Get(compiledIntelligentSystems, ev.ret.code.target).kind = "fallback"
  /\ Len(ev.moves) > 0

FallbackRegistered ==
  /\ ev.ok
  /\ ev.name \in getStrategyNames(R)
  /\ savedStrategies[ev.name] = WrapperSource(ev.name)
  /\ Get(compiledIntelligentSystems, ev.name).kind = "fallback"

\* C26: when analyzeStage returns a value that is no function, the analysis
\* still succeeds and registers a strategy that, called with a non-empty list
\* of legal moves, returns the first move of the list.
C26_FallbackReturnsFirstMove ==
  /\ ReturnedNoFunction => FallbackRegistered
  /\ CalledFallback => ev.move = Move(ev.moves[1])

\* C26 as amended: ... returns one of the moves of the list.
C26_FallbackReturnsAListedMove ==
  /\ ReturnedNoFunction => FallbackRegistered
  /\ CalledFallback => ev.move \in { Move(ev.moves[i]) : i \in 1 .. Len(ev.moves) }

\* the fallback was called and returned the second of two moves
C26_Witness == CalledFallback /\ ev.move = Move(ev.moves[2])

\* an analysis came back with a failure
AnalysisFailed == AnalysisDone /\ ~ev'.ok /\ ~hostBlocked'

\* C27: when the analysis fails (no analyzeStage entry point, text that does
\* not compile, exception thrown by analyzeStage), the saved strategies, the
\* cache of compiled strategies and window.compiledIntelligentSystems are
\* as they were before the call.
C27_FailedAnalysisChangesNoRegistry ==
  [][ AnalysisFailed =>
        UNCHANGED <<savedStrategies, compiledStudentAIs, compiledIntelligentSystems>>
    ]_vars

\* analyzeStage threw while strategies, one of them generated, were registered
C27_Witness ==
  /\ ev.kind = "upload" /\ ev.compiled /\ ~ev.ok
  /\ Texts[ev.code.id].outcome = "throws"
  /\ DOMAIN savedStrategies # {}
  /\ DOMAIN compiledIntelligentSystems # {}

\* C28: after analyzeStageWithSystem has returned, whether the analysis
\* succeeded, returned no function or threw, window.console is the console
\* object that was installed before the call.
C28_ConsoleIsRestored ==
  [][ (AnalysisDone /\ ~hostBlocked') => console' = console ]_vars

\* analyzeStage ran under the wrapped console and threw
C28_Witness ==
  /\ ev.kind = "analyze" \/ ev.kind = "upload"
  /\ ev.code.kind = "source" /\ ev.code.id = "sysThrows"
  /\ ~ev.ok /\ ~hostBlocked
  /\ console = "original"

\* C30: the upload of an intelligent system whose text also contains the
\* name studentStrategy is rejected before any analysis runs.
C30_AmbiguousUploadIsRejected ==
  (ev.kind = "upload" /\ Includes(ev.code, "studentStrategy"))
    => (~ev.ok /\ ~ev.compiled /\ ev.status = "error")

\* ------------------------------------------ properties of the analysis API
\* the cells of board b, its corners and its other edge cells
CellsOf(b) == (DOMAIN b) \X (DOMAIN b)

Last(b) == Cardinality(DOMAIN b) - 1

CornersOf(b) == { rc \in CellsOf(b) : rc[1] \in { 0, Last(b) } /\ rc[2] \in { 0, Last(b) } }

EdgesOf(b) ==
  { rc \in CellsOf(b) : rc[1] \in { 0, Last(b) } \/ rc[2] \in { 0, Last(b) } } \ CornersOf(b)

Owned(b, cells, player) == Cardinality({ rc \in cells : b[rc[1]][rc[2]] = player })

\* placing at rc outflanks in direction d: a run of one or more opponent
\* discs next to rc with a disc of player right after it
Outflanks(b, rc, d, player) ==
  \E k \in 2 .. Cardinality(DOMAIN b) :
    /\ <<rc[1] + k * d[1], rc[2] + k * d[2]>> \in CellsOf(b)
    /\ b[rc[1] + k * d[1]][rc[2] + k * d[2]] = player
    /\ \A j \in 1 .. (k - 1) : b[rc[1] + j * d[1]][rc[2] + j * d[2]] = Opponent(player)

LegalCells(b, player) ==
  { rc \in CellsOf(b) :
      /\ b[rc[1]][rc[2]] = EMPTY
      /\ \E d \in ({ -1, 0, 1 } \X { -1, 0, 1 }) \ { <<0, 0>> } : Outflanks(b, rc, d, player) }

Evaluated == ev.kind = "evaluateBoard"

\* C29: for every board and player, evaluateBoard returns cornerScore = 100
\* times the corners the player owns, edgeScore = 20 times the edge cells
\* that are no corners the player owns, pieceScore = the player's discs minus
\* the opponent's, mobilityScore = the player's number of legal moves minus the
\* opponent's, and totalScore = pieceScore + 2 * mobilityScore + cornerScore
\* + edgeScore / 2.
C29_EvaluateBoardScores ==
  Evaluated =>
    /\ ev.scores.cornerScore = 100 * Owned(board, CornersOf(board), ev.player)
    /\ ev.scores.edgeScore = 20 * Owned(board, EdgesOf(board), ev.player)
    /\ ev.scores.pieceScore =
         Owned(board, CellsOf(board), ev.player)
           - Owned(board, CellsOf(board), Opponent(ev.player))
    /\ ev.scores.mobilityScore =
         Cardinality(LegalCells(board, ev.player))
           - Cardinality(LegalCells(board, Opponent(ev.player)))
    /\ 2 * ev.scores.totalScore =
         2 * ev.scores.pieceScore + 4 * ev.scores.mobilityScore
           + 2 * ev.scores.cornerScore + ev.scores.edgeScore

\* a board was evaluated for a player who owns a corner and another edge
\* cell, with discs and moves that differ in number from the opponent's
C29_Witness ==
  /\ Evaluated
  /\ ev.scores.cornerScore > 0 /\ ev.scores.edgeScore > 0
  /\ ev.scores.pieceScore # 0 /\ ev.scores.mobilityScore # 0

\* ------------------------------------------------- properties of whole games
\* C31: in every reachable state gameRunning and gameOver are not both true,
\* whatever startGame, resetGame, a stage change or another preview
\* initialisation, moves, forfeits and endGame did before.
C31_RunningAndOverExclude == ~(gameRunning /\ gameOver)

\* the empty cells of the board the game of the current stage starts on
EmptyAtStart == CountOf(createInitialBoard(StageNow), EMPTY)

LateFromEarlierGame == ev'.kind = "complete" /\ ev'.invGame = "earlier"

\* C33: a strategy invocation started in one game never affects a later
\* game: when it completes after resetGame and startGame, the board, the
\* current player and the two time counters of the new game stay as they are.
C33_EarlierCallLeavesNewGame ==
  [][ (gameRunning /\ ~gameOver /\ LateFromEarlierGame) =>
        /\ board' = board
        /\ currentPlayer' = currentPlayer
        /\ blackTimeUsed' = blackTimeUsed
        /\ whiteTimeUsed' = whiteTimeUsed ]_vars

\* the step calls a strategy that is pending afterwards: the last of inflight
StrategyCalled == ev'.kind = "call" /\ Len(inflight') = Len(inflight) + 1

\* C34: within one game the deadline handed to a player's strategy is
\* MAX_AI_TIME_PER_GAME minus that player's own cumulative time at the moment
\* of the call, whatever the other player's time is; and no step but the
\* start of a game lowers a player's cumulative time, so each deadline of a
\* player is no longer than the one before it.
C34_DeadlineIsRemainingBudget ==
  [][ /\ StrategyCalled =>
           LET inv == inflight'[Len(inflight')]
           IN inv.delay = MAX_AI_TIME_PER_GAME
                          - (IF inv.player = BLACK THEN blackTimeUsed ELSE whiteTimeUsed)
      /\ ev'.kind # "start" =>
           /\ blackTimeUsed' >= blackTimeUsed
           /\ whiteTimeUsed' >= whiteTimeUsed ]_vars

\* Black is called a second time with 50 ms left after a move of 9950 ms,
\* while White has used its own 9950 ms
C34_Witness ==
  /\ ev.kind = "call"
  /\ ev.player = BLACK
  /\ Len(inflight) = 1
  /\ inflight[1].delay = MAX_AI_TIME_PER_GAME - 9950
  /\ blackTimeUsed = 9950
  /\ whiteTimeUsed = 9950

\* C35: for every stage configuration and every board an analysis holds, the
\* moves the API's getValidMoves reports for a player are those of
\* OthelloCore.getValidMoves under the rules of the stage, and simulateMove
\* accepts a cell exactly when OthelloCore.isValidMove does, on stages with
\* ignoreOcclusion and boards with Blocked cells too.
C35_ApiMovesAreEngineMoves ==
  /\ ev.kind = "getValidMoves" => ev.moves = getValidMoves(ev.player, board, StageNow)
  /\ \A player \in Players, rc \in ApiCells :
       simulateMove(board, player, rc[1], rc[2]).valid
         <=> isValidMove(rc[1], rc[2], player, board, StageNow)

\* the results the step adds to the logger, and the calls of endGame in the
\* step that found a running game
ResultsAdded == Len(gameLogger'.gameResults) - Len(gameLogger.gameResults)

EndGameRan == { i \in DOMAIN ev'.ended : ev'.ended[i].ran }

\* C36: each started game adds at most one result to the logger: a step adds
\* one result for each call of endGame that found the game running, which is
\* at most one and stops the game, and only startGame makes a game run again;
\* a call of endGame on a game that has ended records nothing.
C36_OneResultPerGame ==
  [][ /\ ResultsAdded = Cardinality(EndGameRan)
      /\ ResultsAdded \in {0, 1}
      /\ ResultsAdded = 1 => (gameRunning /\ ~gameRunning')
      /\ (~gameRunning /\ gameRunning') => ev'.kind = "start" ]_vars

\* endGame is called on a game that has ended with its result recorded, by
\* the time check of a call that was still pending
C36_Witness ==
  /\ ev.kind = "complete"
  /\ \E i \in DOMAIN ev.ended : ~ev.ended[i].ran
  /\ gameOver /\ ~gameRunning
  /\ Len(gameLogger.gameResults) = 1

\* C40: saving then loading is a round trip: when the page is loaded again
\* after saveToLocalStorage wrote the results and the games of the logger,
\* loadFromLocalStorage leaves the logger with the gameResults and the
\* previousGames that were written.
C40_SaveThenLoadRoundTrip ==
  [][ ( /\ ev'.kind = "reload"
        /\ "othelloGameResults" \in DOMAIN sessionStorage
        /\ "othelloPreviousGames" \in DOMAIN sessionStorage )
      => /\ gameLogger'.gameResults = Parse(sessionStorage["othelloGameResults"])
         /\ gameLogger'.previousGames = Parse(sessionStorage["othelloPreviousGames"]) ]_vars

\* ------------------------------------------------- properties of tournaments
\* C38: at most one tournament loop is active at a time: no call of
\* runTournament enters its loop while an earlier call is still in its own,
\* after a stopTournament during a game of the stopped tournament either.
C38_OneTournamentLoop == Len(tournament.loops) <= 1

\* the step records a match of a tournament
MatchRecorded == ev'.kind = "recorded"

RECURSIVE SumOver(_, _, _)
SumOver(results, names, field) ==
  IF names = {} THEN 0
  ELSE LET name == CHOOSE n \in names : TRUE
       IN results[name][field] + SumOver(results, names \ {name}, field)

\* C37: after any sequence of recorded matches every entry of the
\* leaderboard has wins + losses + draws = totalGames, the wins of all
\* entries add up to their losses, and their totalGames add up to twice the
\* number of recorded matches.
C37_LeaderboardAddsUp ==
  LET results == tournament.leaderboardData.results
      names == DOMAIN results
  IN /\ \A name \in names :
          results[name].wins + results[name].losses + results[name].draws
            = results[name].totalGames
     /\ SumOver(results, names, "wins") = SumOver(results, names, "losses")
     /\ SumOver(results, names, "totalGames")
          = 2 * Len(tournament.leaderboardData.matches)

====
